---------------------------- MODULE Spec2Model ----------------------------
(***************************************************************************)
(* A model of dev/fuzzy_test/fuzzy_explore.py: the filename clustering     *)
(* pipeline (_list_candidate_files, _split_files_by_role, _cluster_files,  *)
(* _compute_core_and_decorations, _build_final_clusters, _write_report)    *)
(* and the folder loop of main.                                            *)
(*                                                                         *)
(* A Python str is a sequence of one-character strings, so that prefixes,  *)
(* substrings and the code-point order are computed and not assumed.  A    *)
(* Path inside the folder under analysis is identified by its name.        *)
(***************************************************************************)
EXTENDS Integers, Sequences, FiniteSets, TLC

\* ------------------------------------------------------------------ bounds

\* The longest argv that Init of Spec draws.
MaxArgs == 2

\* The most pairs of files (video and asset of one stem) PoolDir holds.
MaxCores == 6

\* The longest decoration string handed to _split_decoration_tokens alone.
MaxPartLen == 4

\* The most strings handed to _longest_common_prefix alone, and the length
\* of the longest of them.
MaxStrings == 3

MaxStringLen == 3

\* The most invocations of app.ingest.main on the host.
MaxCalls == 3

\* ------------------------------------------------------------- characters

\* The characters of the model's file and folder names, in code-point order.
Charset ==
    << " ", "-", ".",
       "0", "1", "2", "3", "4", "5", "6", "7", "8", "9",
       "A", "B", "C", "D", "E", "F", "G", "H", "I", "J", "K", "L", "M",
       "N", "O", "P", "Q", "R", "S", "T", "U", "V", "W", "X", "Y", "Z",
       "_",
       "a", "b", "c", "d", "e", "f", "g", "h", "i", "j", "k", "l", "m",
       "n", "o", "p", "q", "r", "s", "t", "u", "v", "w", "x", "y", "z" >>

Range(s) == {s[k] : k \in 1..Len(s)}

\* The list [f[1], ..., f[n]] of a comprehension f over 1..n, built once.
List(f) == <<>> \o f

\* ord(ch), up to an order-preserving renumbering: str comparison only
\* compares code points.
Ord == [ch \in Range(Charset) |-> CHOOSE k \in 1..Len(Charset) : Charset[k] = ch]

Digits == {Charset[k] : k \in 4..13}
UpperCase == {Charset[k] : k \in 14..39}
LowerCase == {Charset[k] : k \in 41..66}

\* str.isalnum() of one character.
IsAlnum(ch) == ch \in Digits \cup UpperCase \cup LowerCase

\* str.lower() of one character: "a" is 27 places after "A" in Charset.
LowerChar(ch) == IF ch \in UpperCase THEN Charset[Ord[ch] + 27] ELSE ch

\* str.lower().
Lower(s) == List([k \in 1..Len(s) |-> LowerChar(s[k])])

\* ---------------------------------------------------------------- strings

\* The first index at which a and b differ, from k on; 0 if none up to the
\* shorter length.
RECURSIVE FirstDifference(_, _, _)
FirstDifference(a, b, k) ==
    IF k > Len(a) \/ k > Len(b) THEN 0
    ELSE IF a[k] # b[k] THEN k
    ELSE FirstDifference(a, b, k + 1)

\* a < b on str: the first differing character decides, a proper prefix is
\* smaller.
StrLess(a, b) ==
    LET k == FirstDifference(a, b, 1)
    IN  IF k = 0 THEN Len(a) < Len(b) ELSE Ord[a[k]] < Ord[b[k]]

\* s[i:j] with 0 <= i <= j <= len(s) (Python's half-open slice).
Slice(s, i, j) == SubSeq(s, i + 1, j)

\* s.startswith(p).
StartsWith(s, p) == Len(p) <= Len(s) /\ Slice(s, 0, Len(p)) = p

\* sub in s.
Contains(s, sub) ==
    \E i \in 0..(Len(s) - Len(sub)) : Slice(s, i, i + Len(sub)) = sub

\* s.find(sub): the first index, or -1.
Find(s, sub) ==
    IF Contains(s, sub)
    THEN CHOOSE i \in 0..(Len(s) - Len(sub)) :
            /\ Slice(s, i, i + Len(sub)) = sub
            /\ \A j \in 0..(i - 1) : Slice(s, j, j + Len(sub)) # sub
    ELSE -1

\* s.rfind("."): the last index of a period, or -1.
RFindDot(s) ==
    IF \E k \in 1..Len(s) : s[k] = "."
    THEN (CHOOSE k \in 1..Len(s) : s[k] = "." /\ \A j \in (k + 1)..Len(s) : s[j] # ".") - 1
    ELSE -1

\* sorted(s, key=...) for a key whose order is Less: a stable sort.
Sorted(s, Less(_, _)) ==
    LET n == Len(s)
        before == List([i \in 1..n |->
                      Cardinality({j \in 1..n :
                          Less(s[j], s[i]) \/ (j < i /\ ~Less(s[i], s[j]))})])
    IN  List([k \in 1..n |-> s[CHOOSE i \in 1..n : before[i] = k - 1]])

\* A list of the elements of a set (Python iterates a set in an order of its
\* own; every use below sorts the result).
RECURSIVE SetToSeq(_)
SetToSeq(S) ==
    IF S = {} THEN <<>>
    ELSE LET x == CHOOSE y \in S : TRUE IN <<x>> \o SetToSeq(S \ {x})

\* [x for x in s if Test(x)].
Filter(s, Test(_)) == SelectSeq(s, Test)

\* ------------------------------------------------------------------ paths

\* PurePath.suffix: the final extension with its period, or "".
Suffix(name) ==
    LET i == RFindDot(name)
    IN  IF 0 < i /\ i < Len(name) - 1 THEN Slice(name, i, Len(name)) ELSE <<>>

\* PurePath.stem: the name without its final extension.
Stem(name) ==
    LET i == RFindDot(name)
    IN  IF 0 < i /\ i < Len(name) - 1 THEN Slice(name, 0, i) ELSE name

\* The order of key=lambda p: p.name.
\* A variant of NameLess: no name comes before another, so that a sort keeps
\* the order of its input.
NameLessNever(p, q) == FALSE

NameLess(p, q) == StrLess(p, q)

VIDEO_EXTENSIONS == { <<".", "m", "p", "4">>, <<".", "m", "k", "v">>, <<".", "a", "v", "i">> }
ASSET_EXTENSIONS == { <<".", "j", "p", "g">>, <<".", "j", "p", "e", "g">>, <<".", "n", "f", "o">> }
ALL_EXTENSIONS == VIDEO_EXTENSIONS \cup ASSET_EXTENSIONS

SIMILARITY_THRESHOLD == 90

\* _is_hidden.
IsHidden(name) == StartsWith(name, <<".">>)

\* ------------------------------------------------------------- classifier

\* A directory entry is [name |-> str, is_file |-> BOOLEAN]; `entries` is
\* folder.iterdir() in the order the operating system lists it.
IsCandidate(entry) ==
    /\ entry.is_file
    /\ ~IsHidden(entry.name)
    /\ Lower(Suffix(entry.name)) \in ALL_EXTENSIONS

EntryName(entries) == List([k \in 1..Len(entries) |-> entries[k].name])

\* _list_candidate_files.
ListCandidateFiles(entries) ==
    Sorted(EntryName(Filter(entries, IsCandidate)), NameLess)

IsVideo(f) == Lower(Suffix(f)) \in VIDEO_EXTENSIONS
IsAsset(f) == ~IsVideo(f) /\ Lower(Suffix(f)) \in ASSET_EXTENSIONS

\* _split_files_by_role: (video_files, asset_files).
SplitFilesByRole(files) ==
    [video_files |-> Sorted(Filter(files, IsVideo), NameLess),
     asset_files |-> Sorted(Filter(files, IsAsset), NameLess)]

\* -------------------------------------------------------------- clusterer

\* fuzz.ratio(a, b): the answers of the similarity function are the
\* function `ratio` on unordered pairs of names (so it is symmetric).
Score(ratio, a, b) == ratio[{a, b}]

\* A variant of MeetsThreshold: the comparison the other way round.
StaysBelowThreshold(score, threshold) == score <= threshold

\* score >= SIMILARITY_THRESHOLD (lines 87, 96).
MeetsThreshold(score, threshold) == score >= threshold

\* A variant of SeedPass: an asset already assigned to a group is taken
\* again.
SeedPassRetakesAssets(st, seed, video_files, asset_files, ratio, threshold) ==
    IF st.assigned_videos[seed] THEN st
    ELSE
      LET TakeVideo(other) ==
              /\ other # seed
              /\ ~st.assigned_videos[other]
              /\ MeetsThreshold(Score(ratio, seed, other), threshold)
          TakeAsset(asset) ==
              MeetsThreshold(Score(ratio, seed, asset), threshold)
          vs == Filter(Sorted(video_files, NameLess), TakeVideo)
          as == Filter(Sorted(asset_files, NameLess), TakeAsset)
          cluster_members == <<seed>> \o vs \o as
          av == [v \in DOMAIN st.assigned_videos |->
                    st.assigned_videos[v] \/ v = seed \/ v \in Range(vs)]
          aa == [a \in DOMAIN st.assigned_assets |->
                    st.assigned_assets[a] \/ a \in Range(as)]
      IN  [clusters |->
              IF Len(cluster_members) >= 2
              THEN Append(st.clusters,
                          [seed |-> seed, members |-> Sorted(cluster_members, NameLess)])
              ELSE st.clusters,
           assigned_videos |-> av,
           assigned_assets |-> aa]

\* One pass of the seed loop of _cluster_files (lines 74-102).  st is
\* [clusters, assigned_videos, assigned_assets].
SeedPass(st, seed, video_files, asset_files, ratio, threshold) ==
    IF st.assigned_videos[seed] THEN st
    ELSE
      LET TakeVideo(other) ==
              /\ other # seed
              /\ ~st.assigned_videos[other]
              /\ MeetsThreshold(Score(ratio, seed, other), threshold)
          TakeAsset(asset) ==
              /\ ~st.assigned_assets[asset]
              /\ MeetsThreshold(Score(ratio, seed, asset), threshold)
          vs == Filter(Sorted(video_files, NameLess), TakeVideo)
          as == Filter(Sorted(asset_files, NameLess), TakeAsset)
          cluster_members == <<seed>> \o vs \o as
          av == [v \in DOMAIN st.assigned_videos |->
                    st.assigned_videos[v] \/ v = seed \/ v \in Range(vs)]
          aa == [a \in DOMAIN st.assigned_assets |->
                    st.assigned_assets[a] \/ a \in Range(as)]
      IN  [clusters |->
              IF Len(cluster_members) >= 2
              THEN Append(st.clusters,
                          [seed |-> seed, members |-> Sorted(cluster_members, NameLess)])
              ELSE st.clusters,
           assigned_videos |-> av,
           assigned_assets |-> aa]

RECURSIVE SeedLoop(_, _, _, _, _, _)
SeedLoop(st, seeds, video_files, asset_files, ratio, threshold) ==
    IF seeds = <<>> THEN st
    ELSE SeedLoop(SeedPass(st, Head(seeds), video_files, asset_files, ratio, threshold),
                  Tail(seeds), video_files, asset_files, ratio, threshold)

\* The singleton list of _cluster_files (lines 105-113).
UnassignedFiles(st, video_files, asset_files) ==
    LET FreeVideo(vf) == ~st.assigned_videos[vf]
        FreeAsset(af) == ~st.assigned_assets[af]
    IN  Sorted(Filter(video_files, FreeVideo) \o Filter(asset_files, FreeAsset), NameLess)

\* _cluster_files with the module constant SIMILARITY_THRESHOLD set to
\* `threshold`: (clusters, singleton_files).
ClusterFilesAt(threshold, video_files, asset_files, ratio) ==
    LET st0 == [clusters |-> <<>>,
                assigned_videos |-> [vf \in Range(video_files) |-> FALSE],
                assigned_assets |-> [af \in Range(asset_files) |-> FALSE]]
        st == SeedLoop(st0, Sorted(video_files, NameLess),
                       video_files, asset_files, ratio, threshold)
    IN  [clusters |-> st.clusters,
         singleton_files |-> UnassignedFiles(st, video_files, asset_files)]

\* _cluster_files.
ClusterFiles(video_files, asset_files, ratio) ==
    ClusterFilesAt(SIMILARITY_THRESHOLD, video_files, asset_files, ratio)

\* --------------------------------------------------------- core extractor

\* A variant of TrimPrefix: one character is cut, without the loop.
TrimPrefixOnce(prefix, s) ==
    IF ~StartsWith(s, prefix) /\ prefix # <<>>
    THEN Slice(prefix, 0, Len(prefix) - 1)
    ELSE prefix

\* A variant of TrimPrefix: the prefix is never trimmed.
KeepPrefix(prefix, s) == prefix

\* The while loop of _longest_common_prefix (lines 126-127).
RECURSIVE TrimPrefix(_, _)
TrimPrefix(prefix, s) ==
    IF ~StartsWith(s, prefix) /\ prefix # <<>>
    THEN TrimPrefix(Slice(prefix, 0, Len(prefix) - 1), s)
    ELSE prefix

RECURSIVE TrimOver(_, _)
TrimOver(prefix, strings) ==
    IF strings = <<>> \/ prefix = <<>> THEN prefix
    ELSE TrimOver(TrimPrefix(prefix, Head(strings)), Tail(strings))

\* _longest_common_prefix.
LongestCommonPrefix(strings) ==
    IF strings = <<>> THEN <<>> ELSE TrimOver(Head(strings), Tail(strings))

\* A variant of Separators: the space does not separate.
SeparatorsWithoutSpace == {"-", "_", "."}

Separators == {"-", "_", " ", "."}

\* The character loop of _split_decoration_tokens: st is [tokens, current].
RECURSIVE SplitLoop(_, _, _)
SplitLoop(part, tokens, current) ==
    IF part = <<>>
    THEN IF current # <<>> THEN Append(tokens, current) ELSE tokens
    ELSE IF Head(part) \in Separators
         THEN IF current # <<>>
              THEN SplitLoop(Tail(part), Append(tokens, current), <<>>)
              ELSE SplitLoop(Tail(part), tokens, current)
         ELSE SplitLoop(Tail(part), tokens, Append(current, Head(part)))

\* _split_decoration_tokens.
SplitDecorationTokens(decoration_part) ==
    IF decoration_part = <<>> THEN <<>> ELSE SplitLoop(decoration_part, <<>>, <<>>)

Stems(members) == List([k \in 1..Len(members) |-> Stem(members[k])])

\* A variant of CoreGuess: the fallback is the stem of the first member.
CoreGuessFirstMember(cluster) ==
    LET core_guess == LongestCommonPrefix(Stems(cluster.members))
    IN  IF core_guess = <<>> THEN Stem(cluster.members[1]) ELSE core_guess

\* The core of _compute_core_and_decorations (lines 152-155).
CoreGuess(cluster) ==
    LET core_guess == LongestCommonPrefix(Stems(cluster.members))
    IN  IF core_guess = <<>> THEN Stem(cluster.seed) ELSE core_guess

\* The decoration tokens of one member relative to a core (lines 159-165,
\* repeated at 552-558 and 588-594).
DecorationTokens(core_guess, path) ==
    LET stem == Stem(path)
        decoration_part ==
            IF core_guess # <<>> /\ StartsWith(stem, core_guess)
            THEN Slice(stem, Len(core_guess), Len(stem))
            ELSE stem
    IN  SplitDecorationTokens(decoration_part)

\* _compute_core_and_decorations: (core_guess, decorations).
ComputeCoreAndDecorations(cluster) ==
    [core_guess |-> CoreGuess(cluster),
     decorations |-> [path \in Range(cluster.members) |->
                         DecorationTokens(CoreGuess(cluster), path)]]

\* ---------------------------------------------------- tiering, tag miner

\* core_candidates of _build_final_clusters (lines 182-189): the non-empty
\* cores of the initial clusters, deduplicated and sorted.
CoreCandidates(initial_clusters) ==
    LET cores == {CoreGuess(initial_clusters[k]) : k \in 1..Len(initial_clusters)}
    IN  Sorted(SetToSeq(cores \ {<<>>}), StrLess)

RECURSIVE SumLen(_)
SumLen(strings) ==
    IF strings = <<>> THEN 0 ELSE Len(Head(strings)) + SumLen(Tail(strings))

\* A variant of IsNormalCore: a core of exactly half the mean length is short.
IsNormalCoreStrict(c, core_candidates) ==
    2 * Len(core_candidates) * Len(c) > SumLen(core_candidates)

\* len(c) >= short_threshold, where short_threshold = 0.5 * avg_len and
\* avg_len = sum(len) / n (lines 196-199): 2 * n * len(c) >= sum(len).
IsNormalCore(c, core_candidates) ==
    2 * Len(core_candidates) * Len(c) >= SumLen(core_candidates)

\* The order of key=lambda s: (-len(s), s).
LongerFirst(a, b) == Len(a) > Len(b) \/ (Len(a) = Len(b) /\ StrLess(a, b))

\* normal_cores (lines 201, 205).
NormalCores(core_candidates) ==
    LET Normal(c) == IsNormalCore(c, core_candidates)
    IN  Sorted(Filter(core_candidates, Normal), StrLess)

\* A variant of ShortCores: the short cores in alphabetical order.
ShortCoresAlphabetical(core_candidates) ==
    LET Short(c) == ~IsNormalCore(c, core_candidates)
    IN  Sorted(Filter(core_candidates, Short), StrLess)

\* short_cores (lines 202, 208).
ShortCores(core_candidates) ==
    LET Short(c) == ~IsNormalCore(c, core_candidates)
    IN  Sorted(Filter(core_candidates, Short), LongerFirst)

\* ordered_cores (line 210).
OrderedCores(core_candidates) ==
    NormalCores(core_candidates) \o ShortCores(core_candidates)

\* Every a[i:j] with j >= i + 2 (lines 231-234).
Substrings(a) ==
    LET spans == {p \in (0..(Len(a) - 1)) \X (2..Len(a)) : p[2] >= p[1] + 2}
    IN  {Slice(a, p[1], p[2]) : p \in spans}

\* _common_substrings, as a set.
CommonSubstrings(a, b) == {sub \in Substrings(a) : Contains(b, sub)}

\* The intersection loop (lines 236-240).
RECURSIVE IntersectLoop(_, _, _)
IntersectLoop(current, base, others) ==
    IF others = <<>> THEN current
    ELSE LET now == current \cap CommonSubstrings(base, Head(others))
         IN  IF now = {} THEN now ELSE IntersectLoop(now, base, Tail(others))

\* _normalize_tag, and _normalize_tag_for_match of _write_report: strip the
\* leading and trailing non-alphanumeric characters.
NormalizeTag(s) ==
    LET alnum == {k \in 1..Len(s) : IsAlnum(s[k])}
    IN  IF alnum = {} THEN <<>>
        ELSE LET start == CHOOSE k \in alnum : \A j \in alnum : k <= j
                 end == CHOOSE k \in alnum : \A j \in alnum : j <= k
             IN  Slice(s, start - 1, end)

\* A variant of TagMapLoop: among equally long substrings of one normalized
\* form the last one is kept.
RECURSIVE TagMapLoopKeepLast(_, _)
TagMapLoopKeepLast(tag_map, raw_substrings) ==
    IF raw_substrings = <<>> THEN tag_map
    ELSE LET sub == Head(raw_substrings)
             norm == NormalizeTag(sub)
         IN  IF Len(sub) < 3 \/ norm = <<>>
             THEN TagMapLoopKeepLast(tag_map, Tail(raw_substrings))
             ELSE IF norm \notin DOMAIN tag_map \/ Len(sub) >= Len(tag_map[norm])
                  THEN TagMapLoopKeepLast((norm :> sub) @@ tag_map, Tail(raw_substrings))
                  ELSE TagMapLoopKeepLast(tag_map, Tail(raw_substrings))

\* The tag_map loop (lines 258-268): tag_map is a function from normalized
\* forms to substrings.
RECURSIVE TagMapLoop(_, _)
TagMapLoop(tag_map, raw_substrings) ==
    IF raw_substrings = <<>> THEN tag_map
    ELSE LET sub == Head(raw_substrings)
             norm == NormalizeTag(sub)
         IN  IF Len(sub) < 3 \/ norm = <<>>
             THEN TagMapLoop(tag_map, Tail(raw_substrings))
             ELSE IF norm \notin DOMAIN tag_map \/ Len(sub) > Len(tag_map[norm])
                  THEN TagMapLoop((norm :> sub) @@ tag_map, Tail(raw_substrings))
                  ELSE TagMapLoop(tag_map, Tail(raw_substrings))

\* The first five elements, s[:5].
FirstFive(s) == IF Len(s) <= 5 THEN s ELSE SubSeq(s, 1, 5)

\* shared_substrings (lines 224-273).
SharedSubstrings(normal_cores) ==
    IF normal_cores = <<>> THEN <<>>
    ELSE LET sample == FirstFive(normal_cores)
             base == Head(sample)
             current == IntersectLoop(Substrings(base), base, Tail(sample))
             raw_substrings == Sorted(SetToSeq(current), LongerFirst)
             tag_map == TagMapLoop(<<>>, raw_substrings)
         IN  Sorted(SetToSeq({tag_map[n] : n \in DOMAIN tag_map}), LongerFirst)

\* --------------------------------------------------------- final assignor

\* ordered_cores.index(c).
IndexOf(s, x) == CHOOSE k \in 1..Len(s) : s[k] = x /\ \A j \in 1..(k - 1) : s[j] # x

\* A variant of BestCore: the shortest matching core.
ShortestMatchingCore(matching_cores, ordered_cores) ==
    CHOOSE c \in Range(matching_cores) : \A d \in Range(matching_cores) : Len(c) <= Len(d)

\* A variant of BestCore: the first matching core in the order of
\* ordered_cores, whatever its length.
FirstMatchingCore(matching_cores, ordered_cores) == matching_cores[1]

\* best_core (lines 286-289): the maximum of key (len(c), -index(c)).
BestCore(matching_cores, ordered_cores) ==
    CHOOSE c \in Range(matching_cores) :
        \A d \in Range(matching_cores) :
            \/ Len(d) < Len(c)
            \/ Len(d) = Len(c) /\ IndexOf(ordered_cores, c) <= IndexOf(ordered_cores, d)

\* A variant of CoresOf: the file is appended to every matching core.
EveryMatchingCore(f, ordered_cores) ==
    LET Matches(core) == StartsWith(Stem(f), core)
    IN  Filter(ordered_cores, Matches)

\* The cores whose member list one file is appended to (lines 280-290): the
\* best core, or none.
CoresOf(f, ordered_cores) ==
    LET Matches(core) == StartsWith(Stem(f), core)
        matching_cores == Filter(ordered_cores, Matches)
    IN  IF matching_cores = <<>> THEN <<>>
        ELSE <<BestCore(matching_cores, ordered_cores)>>

\* core_to_members after the loop over all_files (lines 277-290).
CoreToMembers(all_files, ordered_cores) ==
    [core \in Range(ordered_cores) |->
        LET Taken(f) == core \in Range(CoresOf(f, ordered_cores))
        IN  Filter(all_files, Taken)]

\* FinalCluster(core_guess, members, video_count) (lines 297-306).
MakeFinalCluster(core, members) ==
    [core_guess |-> core,
     members |-> Sorted(members, NameLess),
     video_count |-> Len(Filter(members, IsVideo))]

\* final_clusters (lines 293-306): one per core with members, in the order of
\* ordered_cores.
RECURSIVE FinalClustersOf(_, _)
FinalClustersOf(ordered_cores, core_to_members) ==
    IF ordered_cores = <<>> THEN <<>>
    ELSE LET core == Head(ordered_cores)
             rest == FinalClustersOf(Tail(ordered_cores), core_to_members)
         IN  IF core_to_members[core] = <<>> THEN rest
             ELSE <<MakeFinalCluster(core, core_to_members[core])>> \o rest

\* final_singletons (lines 309-313).
FinalSingletons(all_files, core_to_members) ==
    LET assigned_files ==
            UNION {Range(core_to_members[core]) : core \in DOMAIN core_to_members}
        Free(f) == f \notin assigned_files
    IN  Sorted(Filter(all_files, Free), NameLess)

\* _build_final_clusters: (final_clusters, final_singletons, all_cores,
\* normal_cores, shared_substrings).
BuildFinalClusters(initial_clusters, video_files, asset_files) ==
    LET all_files == Sorted(video_files \o asset_files, NameLess)
        core_candidates == CoreCandidates(initial_clusters)
        normal_cores == NormalCores(core_candidates)
        ordered_cores == OrderedCores(core_candidates)
        core_to_members == CoreToMembers(all_files, ordered_cores)
    IN  IF core_candidates = <<>>
        THEN [final_clusters |-> <<>>, final_singletons |-> all_files,
              all_cores |-> <<>>, normal_cores |-> <<>>, shared_substrings |-> <<>>]
        ELSE [final_clusters |-> FinalClustersOf(ordered_cores, core_to_members),
              final_singletons |-> FinalSingletons(all_files, core_to_members),
              all_cores |-> core_candidates,
              normal_cores |-> normal_cores,
              shared_substrings |-> SharedSubstrings(normal_cores)]

\* ----------------------------------------------------------------- report

\* A variant of ReachesNinety: the bar at one half.
ReachesHalf(count, total_normals) == 2 * count >= total_normals

\* count / total_normals >= 0.9 (lines 412, 444-446, 501-502, 518).
ReachesNinety(count, total_normals) == 10 * count >= 9 * total_normals

\* A variant of CoverageCount: only the five sampled cores are counted.
CoverageCountInSample(sub, normal_cores) ==
    LET Has(c) == Contains(c, sub) IN Len(Filter(FirstFive(normal_cores), Has))

\* sum(1 for c in normal_cores if sub in c).
CoverageCount(sub, normal_cores) ==
    LET Has(c) == Contains(c, sub) IN Len(Filter(normal_cores, Has))

\* tag_infos (lines 406-413): [sub, count] per shared substring, the ratio
\* being count / total_normals.
RECURSIVE TagInfos(_, _)
TagInfos(shared_substrings, normal_cores) ==
    IF shared_substrings = <<>> THEN <<>>
    ELSE LET sub == Head(shared_substrings)
             norm == NormalizeTag(sub)
             rest == TagInfos(Tail(shared_substrings), normal_cores)
         IN  IF norm = <<>> THEN rest
             ELSE <<[sub |-> sub, count |-> CoverageCount(norm, normal_cores)]>> \o rest

\* The order of key=lambda t: (-t[2], -len(t[0]), t[0]) (line 423); the
\* ratios share their denominator.
TagInfoBefore(t, u) ==
    t.count > u.count \/ (t.count = u.count /\ LongerFirst(t.sub, u.sub))

\* _find_positions.
FindPositions(sub, cores) ==
    IF \E k \in 1..Len(cores) : Find(cores[k], sub) = -1 THEN <<>>
    ELSE List([k \in 1..Len(cores) |-> Find(cores[k], sub)])

\* The loop that expands to the left (lines 461-475).
RECURSIVE ExpandLeft(_, _)
ExpandLeft(current, matching_cores) ==
    LET positions == FindPositions(current, matching_cores)
        left_chars == {matching_cores[k][positions[k]] : k \in 1..Len(positions)}
    IN  IF positions = <<>> THEN current
        ELSE IF \E k \in 1..Len(positions) : positions[k] = 0 THEN current
        ELSE IF Cardinality(left_chars) # 1 THEN current
        ELSE ExpandLeft(<<CHOOSE ch \in left_chars : TRUE>> \o current, matching_cores)

\* The loop that expands to the right (lines 478-494).
RECURSIVE ExpandRight(_, _)
ExpandRight(current, matching_cores) ==
    LET positions == FindPositions(current, matching_cores)
        ends == List([k \in 1..Len(positions) |-> positions[k] + Len(current)])
        right_chars == {matching_cores[k][ends[k] + 1] : k \in 1..Len(positions)}
    IN  IF positions = <<>> THEN current
        ELSE IF \E k \in 1..Len(ends) : ends[k] >= Len(matching_cores[k]) THEN current
        ELSE IF Cardinality(right_chars) # 1 THEN current
        ELSE ExpandRight(Append(current, CHOOSE ch \in right_chars : TRUE), matching_cores)

\* significant_tag is None, significant_count 0.
NoTag == [tag |-> <<>>, count |-> 0]

\* significant_tag and significant_count (lines 427-505), from top5.
SignificantTag(top5, normal_cores) ==
    LET total_normals == Len(normal_cores)
        seed_norm == NormalizeTag(top5[1].sub)
        Matching(c) == Contains(c, seed_norm)
        matching_cores == Filter(normal_cores, Matching)
        final_tag ==
            NormalizeTag(ExpandRight(ExpandLeft(seed_norm, matching_cores), matching_cores))
        final_count == CoverageCount(final_tag, normal_cores)
    IN  IF /\ seed_norm # <<>>
           /\ ReachesNinety(Len(matching_cores), total_normals)
           /\ matching_cores # <<>>
           /\ final_tag # <<>> /\ Len(final_tag) >= 3
           /\ ReachesNinety(final_count, total_normals)
        THEN [tag |-> final_tag, count |-> final_count]
        ELSE NoTag

\* The CORE-BASED SHARED STRINGS section (lines 389-526): shown says whether
\* the section is more than "(none)".
SharedSection(normal_cores, shared_substrings) ==
    LET tag_infos == TagInfos(shared_substrings, normal_cores)
        top5 == FirstFive(Sorted(tag_infos, TagInfoBefore))
    IN  IF shared_substrings = <<>> \/ normal_cores = <<>> \/ tag_infos = <<>>
        THEN [shown |-> FALSE, significant |-> NoTag, top5 |-> <<>>,
              total_normals |-> Len(normal_cores)]
        ELSE [shown |-> TRUE, significant |-> SignificantTag(top5, normal_cores),
              top5 |-> top5, total_normals |-> Len(normal_cores)]

RECURSIVE Concat(_)
Concat(seqs) == IF seqs = <<>> THEN <<>> ELSE Head(seqs) \o Concat(Tail(seqs))

\* The tokens of every member of one cluster, in member order.
ClusterTokens(cluster) ==
    Concat(List([k \in 1..Len(cluster.members) |->
                    DecorationTokens(cluster.core_guess, cluster.members[k])]))

\* A variant of IsCoreName: only a token equal to a core is skipped.
EqualsCoreName(token, core_strings) == token \in core_strings

\* The skip test of the decoration summary (lines 564-570).
IsCoreName(token, core_strings) ==
    \E core \in core_strings : token # <<>> /\ Contains(core, token)

\* decoration_counter (lines 544-571), as a function from tokens to counts.
DecorationCounter(clusters) ==
    LET core_strings == {clusters[k].core_guess : k \in 1..Len(clusters)}
        tokens == Concat(List([k \in 1..Len(clusters) |-> ClusterTokens(clusters[k])]))
        Counted(token) == ~IsCoreName(token, core_strings)
        kept == Filter(tokens, Counted)
    IN  [token \in Range(kept) |-> Cardinality({k \in 1..Len(kept) : kept[k] = token})]

\* The order of key=lambda kv: (-kv[1], kv[0]) (line 577).
CountBefore(kv, lw) ==
    kv[2] > lw[2] \/ (kv[2] = lw[2] /\ StrLess(kv[1], lw[1]))

\* The CLUSTER #idx block (lines 584-608).
ClusterDetail(cluster) ==
    [core_guess |-> cluster.core_guess,
     members |-> cluster.members,
     decorations |-> List([k \in 1..Len(cluster.members) |->
                              DecorationTokens(cluster.core_guess, cluster.members[k])])]

\* The text _write_report writes, section by section.
ReportText(folder, clusters, singletons, all_cores, normal_cores, shared_substrings) ==
    LET considered_files ==
            UNION {Range(clusters[k].members) : k \in 1..Len(clusters)}
                \cup Range(singletons)
        kept_core_set == {clusters[k].core_guess : k \in 1..Len(clusters)}
        Dismissed(c) == c \notin kept_core_set
        MultiVideo(c) == c.video_count > 1
        counter == DecorationCounter(clusters)
    IN  [folder |-> folder,
         file_count |-> Cardinality(considered_files),
         threshold |-> SIMILARITY_THRESHOLD,
         cores |-> List([k \in 1..Len(clusters) |->
                            <<clusters[k].core_guess, Len(clusters[k].members)>>]),
         total_units |-> Len(clusters),
         dismissed_cores |-> Filter(all_cores, Dismissed),
         shared |-> SharedSection(normal_cores, shared_substrings),
         multi_video |-> Filter(clusters, MultiVideo),
         decorations |->
             Sorted(SetToSeq({<<t, counter[t]>> : t \in DOMAIN counter}), CountBefore),
         details |-> List([k \in 1..Len(clusters) |-> ClusterDetail(clusters[k])]),
         singletons |-> singletons]

\* ------------------------------------------------------------ file system

\* A folder is its resolved absolute path, the sequence of its components.
\* The directories and files below are the file system the runs read; a path
\* outside DOMAIN FileSystem does not exist.
ShowDir == <<<<"l", "i", "b">>, <<"s", "h", "o", "w">>>>
MovDir == <<<<"l", "i", "b">>, <<"m", "o", "v">>>>
LotsDir == <<<<"l", "i", "b">>, <<"l", "o", "t", "s">>>>
HyphenDir == <<<<"l", "i", "b">>, <<"a", "-", "b">>>>
UnderscoreDir == <<<<"l", "i", "b">>, <<"a", "_", "b">>>>
DashesDir == <<<<"l", "i", "b">>, <<"-", "-">>>>
NoneDir == <<<<"l", "i", "b">>, <<"n", "o", "n", "e">>>>
PlainFile == <<<<"l", "i", "b">>, <<"f", ".", "m", "k", "v">>>>
GonePath == <<<<"l", "i", "b">>, <<"g", "o", "n", "e">>>>
LibDir == <<<<"l", "i", "b">>>>
RootDir == <<>>

\* Show.S01E01.mkv, Show.S01E02.mkv, Show.S01E01.nfo, Unrelated.avi, and
\* entries that are no candidates.
ShowEntries ==
    << [name |-> <<"U", "n", "r", "e", "l", "a", "t", "e", "d", ".", "a", "v", "i">>, is_file |-> TRUE],
       [name |-> <<"S", "h", "o", "w", ".", "S", "0", "1", "E", "0", "1", ".", "n", "f", "o">>, is_file |-> TRUE],
       [name |-> <<"S", "h", "o", "w", ".", "S", "0", "1", "E", "0", "2", ".", "m", "k", "v">>, is_file |-> TRUE],
       [name |-> <<"S", "h", "o", "w", ".", "S", "0", "1", "E", "0", "1", ".", "m", "k", "v">>, is_file |-> TRUE],
       [name |-> <<".", "x", ".", "m", "k", "v">>, is_file |-> TRUE],
       [name |-> <<"d", ".", "m", "k", "v">>, is_file |-> FALSE],
       [name |-> <<"a", ".", "t", "x", "t">>, is_file |-> TRUE] >>

\* Mov.mkv, Mov.nfo, Mov2a.mkv, Mov2b.MKV.
MovEntries ==
    << [name |-> <<"M", "o", "v", "2", "b", ".", "M", "K", "V">>, is_file |-> TRUE],
       [name |-> <<"M", "o", "v", ".", "n", "f", "o">>, is_file |-> TRUE],
       [name |-> <<"M", "o", "v", "2", "a", ".", "m", "k", "v">>, is_file |-> TRUE],
       [name |-> <<"M", "o", "v", ".", "m", "k", "v">>, is_file |-> TRUE] >>

\* eps1a.mkv, eps1b.nfo, ..., eps5a.mkv, eps5b.nfo, zzz6a.mkv, zzz6b.nfo.
LotsEntries ==
    << [name |-> <<"e", "p", "s", "1", "b", ".", "n", "f", "o">>, is_file |-> TRUE],
       [name |-> <<"e", "p", "s", "1", "a", ".", "m", "k", "v">>, is_file |-> TRUE],
       [name |-> <<"e", "p", "s", "2", "b", ".", "n", "f", "o">>, is_file |-> TRUE],
       [name |-> <<"e", "p", "s", "2", "a", ".", "m", "k", "v">>, is_file |-> TRUE],
       [name |-> <<"e", "p", "s", "3", "b", ".", "n", "f", "o">>, is_file |-> TRUE],
       [name |-> <<"e", "p", "s", "3", "a", ".", "m", "k", "v">>, is_file |-> TRUE],
       [name |-> <<"e", "p", "s", "4", "b", ".", "n", "f", "o">>, is_file |-> TRUE],
       [name |-> <<"e", "p", "s", "4", "a", ".", "m", "k", "v">>, is_file |-> TRUE],
       [name |-> <<"e", "p", "s", "5", "b", ".", "n", "f", "o">>, is_file |-> TRUE],
       [name |-> <<"e", "p", "s", "5", "a", ".", "m", "k", "v">>, is_file |-> TRUE],
       [name |-> <<"z", "z", "z", "6", "a", ".", "m", "k", "v">>, is_file |-> TRUE],
       [name |-> <<"z", "z", "z", "6", "b", ".", "n", "f", "o">>, is_file |-> TRUE] >>

Dir(entries) == [is_dir |-> TRUE, entries |-> entries]

FileSystem ==
    (ShowDir :> Dir(ShowEntries))
    @@ (MovDir :> Dir(MovEntries))
    @@ (LotsDir :> Dir(LotsEntries))
    @@ (HyphenDir :> Dir(<< [name |-> <<"x", ".", "n", "f", "o">>, is_file |-> TRUE], [name |-> <<"x", ".", "m", "k", "v">>, is_file |-> TRUE] >>))
    @@ (UnderscoreDir :> Dir(<< [name |-> <<"y", ".", "m", "p", "4">>, is_file |-> TRUE], [name |-> <<"y", ".", "j", "p", "e", "g">>, is_file |-> TRUE] >>))
    @@ (DashesDir :> Dir(<< [name |-> <<"s", ".", "m", "p", "4">>, is_file |-> TRUE] >>))
    @@ (NoneDir :> Dir(<< [name |-> <<"a", ".", "t", "x", "t">>, is_file |-> TRUE], [name |-> <<"s", "u", "b", ".", "a", "v", "i">>, is_file |-> FALSE] >>))
    @@ (PlainFile :> [is_dir |-> FALSE, entries |-> <<>>])
    @@ (LibDir :> Dir(<< >>))
    @@ (RootDir :> Dir(<< [name |-> <<"l", "i", "b">>, is_file |-> FALSE], [name |-> <<"r", ".", "a", "v", "i">>, is_file |-> TRUE] >>))

\* A command-line argument is [absolute, parts]: an absolute or a relative
\* path.  The process runs with LibDir as its working directory.
Abs(parts) == [absolute |-> TRUE, parts |-> parts]
Rel(parts) == [absolute |-> FALSE, parts |-> parts]

\* Path(arg).expanduser().resolve() (lines 644, 648): no argument starts
\* with "~", and the file system holds no symbolic link.
Resolve(arg) == IF arg.absolute THEN arg.parts ELSE LibDir \o arg.parts

\* The arguments the runs of Spec draw: folders with at most two candidates.
RunArgs ==
    { Abs(HyphenDir), Abs(UnderscoreDir), Rel(<<<<"a", "_", "b">>>>), Abs(DashesDir),
      Abs(RootDir), Abs(NoneDir), Abs(PlainFile), Abs(GonePath) }

\* The arguments the one-folder runs of SpecAnalysis draw.
AnalysisArgs ==
    { Abs(ShowDir), Abs(MovDir), Abs(LotsDir), Abs(HyphenDir),
      Abs(NoneDir), Abs(PlainFile), Abs(GonePath) }

\* The scores the similarity function answers with, and the thresholds the
\* clusterer has been run with (spec 4.2: 80 and 90).
Scores == {70, 85, 95}
Thresholds == {80, 90}

\* The candidate files of a folder, in name order.
CandidatesIn(folder) ==
    IF folder \in DOMAIN FileSystem /\ FileSystem[folder].is_dir
    THEN ListCandidateFiles(FileSystem[folder].entries)
    ELSE <<>>

\* The pairs of names _cluster_files may ask the similarity function about:
\* a video against a video or an asset of the same folder.
QueriedPairs(folder) ==
    LET files == Range(CandidatesIn(folder))
    IN  {{a, b} : a \in {f \in files : IsVideo(f)}, b \in files} \
            {{f} : f \in files}

\* The similarity functions drawn for a folder: every function into Scores,
\* except for LotsDir, where only the score of the zzz6 pair varies, every
\* epsNa.mkv scores 95 against its epsNb.nfo and every other pair scores 70.
RatiosOn(folder) ==
    IF folder # LotsDir THEN [QueriedPairs(folder) -> Scores]
    ELSE LET SameUnit(p) == \A a, b \in p : Slice(a, 0, 4) = Slice(b, 0, 4)
             IsEps(p) == \A a \in p : a[1] = "e"
         IN  {[p \in QueriedPairs(folder) |->
                  IF ~SameUnit(p) THEN 70 ELSE IF IsEps(p) THEN 95 ELSE z] :
              z \in Scores}

\* The similarity functions drawn for a run over argv: one score for every
\* pair that may be asked about in a folder of argv.
RECURSIVE RatiosFor(_)
RatiosFor(folders) ==
    IF folders = {} THEN {<<>>}
    ELSE LET folder == CHOOSE f \in folders : TRUE
         IN  {r @@ q : r \in RatiosOn(folder), q \in RatiosFor(folders \ {folder})}

\* A folder of the library that holds, for some of the stems below, the
\* video <stem>.mkv and the asset <stem>.nfo.
PoolDir == <<<<"l", "i", "b">>, <<"p", "o", "o", "l">>>>

PoolStems ==
    { <<"a">>,
      <<"b">>,
      <<"z", "z">>,
      <<"M", "o", "v">>,
      <<"a", ".", "t", "a", "g", "1">>,
      <<"b", ".", "t", "a", "g", "2">>,
      <<"c", ".", "t", "a", "g", "3">>,
      <<"d", ".", "t", "a", "g", "4">>,
      <<"e", ".", "t", "a", "g", "5">>,
      <<"f", "t", "a", "g", "6">>,
      <<"1", ".", "a", "b", "2", "a", "b", ".", "3">>,
      <<"4", ".", "a", "b", "5", "a", "b", ".", "6">> }


\* The candidate files of PoolDir when it holds the files of `stems`.
PoolFiles(stems) ==
    Sorted(SetToSeq({(s \o <<".", "m", "k", "v">>) : s \in stems} \cup {(s \o <<".", "n", "f", "o">>) : s \in stems}),
           NameLess)

\* The similarity function on PoolDir: a video scores 95 against the asset
\* of its own stem and 70 against every other file.
PoolRatio ==
    [p \in {{(s \o <<".", "m", "k", "v">>), f} : s \in PoolStems, f \in Range(PoolFiles(PoolStems))}
               \ {{f} : f \in Range(PoolFiles(PoolStems))} |->
        IF \E s \in PoolStems : p = {(s \o <<".", "m", "k", "v">>), (s \o <<".", "n", "f", "o">>)} THEN 95 ELSE 70]

\* -------------------------------------------------------------- main, state

VARIABLES
    argv,              \* the folder arguments of the run
    ratio,             \* the answers of fuzz.ratio, fixed for the run
    iterdir,           \* path -> its entries in the order Path.iterdir yields them
    pc,                \* where main is: start, loop, cluster, build, write, done, raised
    timestamp,         \* _current_timestamp_str(), taken once (line 645)
    i,                 \* the index in folder_args of the folder being processed
    candidate_files,   \* main's locals (lines 656-675)
    video_files,
    asset_files,
    initial_clusters,
    cluster_singletons, \* the second value of _cluster_files, which main drops
    final,             \* the five values of _build_final_clusters
    logs,              \* dev/fuzzy_test/logs: report file name -> text
    stderr,            \* the lines written to sys.stderr
    exit_code          \* <<>> until main returns, then <<code>>

\* A call of _split_decoration_tokens, and one of _longest_common_prefix,
\* on its own.
VARIABLES
    decoration_part,   \* the argument of the call
    tokens,            \* <<>> until the call returns, then <<the list returned>>
    strings,           \* the argument of _longest_common_prefix
    prefix             \* <<>> until that call returns, then <<the string returned>>

splitter == <<decoration_part, tokens, strings, prefix>>

\* app.ingest.main and app.db, over the invocations of one host.
VARIABLES
    ingest_argv,         \* argv of the invocation of app.ingest.main under way or last made
    ingest_pc,           \* where that main is: idle, connect, record, commit, final
    exists_flag,         \* main's locals (lines 115-137); <<>> is None or not yet set
    file_size,
    ingest_id,
    db_status,
    ingest_exit,         \* <<>> while main runs, then <<the code returned>>
    stdout,              \* the lines _log wrote, oldest first
    calls,               \* how many invocations of main were started
    schema_initialized,  \* db._SCHEMA_INITIALIZED of the running process
    databases,           \* database path -> the committed content of the file
    conn                 \* <<>>, or <<the connection get_connection has yielded>>

ingestion == <<ingest_argv, ingest_pc, exists_flag, file_size, ingest_id, db_status,
               ingest_exit, stdout, calls, schema_initialized, databases, conn>>

fuzzy == <<argv, ratio, iterdir, pc, timestamp, i, candidate_files, video_files, asset_files,
           initial_clusters, cluster_singletons, final, logs, stderr, exit_code>>

vars == <<fuzzy, splitter, ingestion>>

locals == <<candidate_files, video_files, asset_files, initial_clusters,
            cluster_singletons, final>>

\* datetime.now(timezone.utc).strftime("%Y%m%d-%H%M%S") at the two
\* instants a run is started at.
Timestamps == { <<"2", "0", "2", "6", "0", "1", "0", "1", "-", "0", "0", "0", "0", "0", "0">>,
                <<"2", "0", "2", "6", "0", "1", "0", "1", "-", "0", "0", "0", "0", "0", "1">> }

\* base.strip("_").
StripUnderscores(s) ==
    LET keep == {k \in 1..Len(s) : s[k] # "_"}
    IN  IF keep = {} THEN <<>>
        ELSE LET start == CHOOSE k \in keep : \A j \in keep : k <= j
                 end == CHOOSE k \in keep : \A j \in keep : j <= k
             IN  Slice(s, start - 1, end)

\* PurePath.name: the last component, "" for the root.
FolderName(folder) == IF folder = <<>> THEN <<>> ELSE folder[Len(folder)]

\* _sanitize_folder_name.
SanitizeFolderName(folder) ==
    LET base == IF FolderName(folder) # <<>> THEN FolderName(folder) ELSE <<"r", "o", "o", "t">>
        sanitized_chars ==
            List([k \in 1..Len(base) |-> IF IsAlnum(base[k]) THEN base[k] ELSE "_"])
        sanitized == StripUnderscores(sanitized_chars)
    IN  IF sanitized # <<>> THEN sanitized ELSE <<"f", "o", "l", "d", "e", "r">>

\* report_filename (line 678); the directory dev/fuzzy_test/logs is the same
\* for every report.
ReportFilename(stamp, folder) ==
    stamp \o <<"_">> \o SanitizeFolderName(folder) \o <<".", "t", "x", "t">>

NoLocals ==
    /\ candidate_files = <<>>
    /\ video_files = <<>>
    /\ asset_files = <<>>
    /\ initial_clusters = <<>>
    /\ cluster_singletons = <<>>
    /\ final = [final_clusters |-> <<>>, final_singletons |-> <<>>, all_cores |-> <<>>,
                normal_cores |-> <<>>, shared_substrings |-> <<>>]

\* db.py line 28.
DEFAULT_DB_PATH == <<"state", "ingest.db">>

\* The paths of the configs get_connection is called with: the default one
\* and a second one.
DbPaths == {DEFAULT_DB_PATH, <<"other", "ingest.db">>}

\* No invocation of app.ingest.main was made, in a process that opened no
\* connection, on a host whose database files nothing was written to yet.
NoIngestion ==
    /\ ingest_argv = <<>>
    /\ ingest_pc = "idle"
    /\ exists_flag = <<>>
    /\ file_size = <<>>
    /\ ingest_id = <<>>
    /\ db_status = ""
    /\ ingest_exit = <<>>
    /\ stdout = <<>>
    /\ calls = 0
    /\ schema_initialized = FALSE
    /\ databases = [p \in DbPaths |->
                        [tables |-> {}, ingest_log |-> <<>>, sqlite_sequence |-> 0]]
    /\ conn = <<>>

\* Neither a call of _split_decoration_tokens or _longest_common_prefix on
\* its own nor an invocation of app.ingest.main is under way.
OutsideIdle ==
    /\ decoration_part = <<>>
    /\ tokens = <<>>
    /\ strings = <<>>
    /\ prefix = <<>>
    /\ NoIngestion

\* The state main starts in, for an argv over the arguments `args` of at
\* most `longest` folders.
InitOver(args, longest) ==
    /\ argv \in UNION {[1..n -> args] : n \in 0..longest}
    /\ ratio \in RatiosFor({Resolve(argv[k]) : k \in 1..Len(argv)})
    /\ iterdir = [folder \in DOMAIN FileSystem |-> FileSystem[folder].entries]
    /\ pc = "start"
    /\ timestamp = <<>>
    /\ i = 0
    /\ NoLocals
    /\ logs = <<>>
    /\ stderr = <<>>
    /\ exit_code = <<>>
    /\ OutsideIdle

Init == InitOver(RunArgs, MaxArgs)

InitAnalysis == InitOver(AnalysisArgs, 1)

\* ------------------------------------------------------------ main, steps

\* The folder of the current iteration (line 648).
Folder == Resolve(argv[i])

Say(level, what, subject) == Append(stderr, [level |-> level, what |-> what, subject |-> subject])

NextFolder == i' = i + 1 /\ pc' = "loop"

\* Lines 638-642: no argument is a usage error.
Usage ==
    /\ pc = "start"
    /\ argv = <<>>
    /\ stderr' = Say("USAGE", "usage", <<>>)
    /\ exit_code' = <<1>>
    /\ pc' = "done"
    /\ UNCHANGED <<splitter, ingestion, argv, ratio, iterdir, timestamp, i, locals, logs>>

\* Lines 644-645.
Start ==
    /\ pc = "start"
    /\ argv # <<>>
    /\ timestamp' \in Timestamps
    /\ i' = 1
    /\ pc' = "loop"
    /\ UNCHANGED <<splitter, ingestion, argv, ratio, iterdir, locals, logs, stderr, exit_code>>

InLoop == pc = "loop" /\ i <= Len(argv)

\* A variant of SkipMissing: main returns 1 at the missing folder.
SkipMissingReturns ==
    /\ InLoop
    /\ Folder \notin DOMAIN FileSystem
    /\ stderr' = Say("WARN", "missing", Folder)
    /\ exit_code' = <<1>>
    /\ pc' = "done"
    /\ UNCHANGED <<splitter, ingestion, argv, ratio, iterdir, timestamp, i, locals, logs>>

\* Lines 649-651.
SkipMissing ==
    /\ InLoop
    /\ Folder \notin DOMAIN FileSystem
    /\ stderr' = Say("WARN", "missing", Folder)
    /\ NextFolder
    /\ UNCHANGED <<splitter, ingestion, argv, ratio, iterdir, timestamp, locals, logs, exit_code>>

\* Lines 652-654.
SkipNotDir ==
    /\ InLoop
    /\ Folder \in DOMAIN FileSystem
    /\ ~FileSystem[Folder].is_dir
    /\ stderr' = Say("WARN", "not a directory", Folder)
    /\ NextFolder
    /\ UNCHANGED <<splitter, ingestion, argv, ratio, iterdir, timestamp, locals, logs, exit_code>>

IsDir == Folder \in DOMAIN FileSystem /\ FileSystem[Folder].is_dir

\* Lines 656-659.
SkipNoCandidates ==
    /\ InLoop
    /\ IsDir
    /\ ListCandidateFiles(iterdir[Folder]) = <<>>
    /\ candidate_files' = <<>>
    /\ stderr' = Say("INFO", "no candidates", Folder)
    /\ NextFolder
    /\ UNCHANGED <<splitter, ingestion, argv, ratio, iterdir, timestamp, video_files, asset_files, initial_clusters,
                   cluster_singletons, final, logs, exit_code>>

\* Lines 656-661.
ListAndSplit ==
    /\ InLoop
    /\ IsDir
    /\ LET files == ListCandidateFiles(iterdir[Folder])
       IN  /\ files # <<>>
           /\ candidate_files' = files
           /\ video_files' = SplitFilesByRole(files).video_files
           /\ asset_files' = SplitFilesByRole(files).asset_files
    /\ pc' = "cluster"
    /\ UNCHANGED <<splitter, ingestion, argv, ratio, iterdir, timestamp, i, initial_clusters, cluster_singletons, final,
                   logs, stderr, exit_code>>

\* Line 662.
Cluster ==
    /\ pc = "cluster"
    /\ LET got == ClusterFiles(video_files, asset_files, ratio)
       IN  /\ initial_clusters' = got.clusters
           /\ cluster_singletons' = got.singleton_files
    /\ pc' = "build"
    /\ UNCHANGED <<splitter, ingestion, argv, ratio, iterdir, timestamp, i, candidate_files, video_files, asset_files,
                   final, logs, stderr, exit_code>>

\* Lines 665-675.
Build ==
    /\ pc = "build"
    /\ final' = BuildFinalClusters(initial_clusters, video_files, asset_files)
    /\ pc' = "write"
    /\ UNCHANGED <<splitter, ingestion, argv, ratio, iterdir, timestamp, i, candidate_files, video_files, asset_files,
                   initial_clusters, cluster_singletons, logs, stderr, exit_code>>

\* Lines 677-690 when mkdir and write_text succeed: the file is created or
\* overwritten.
WriteReport ==
    /\ pc = "write"
    /\ LET report_filename == ReportFilename(timestamp, Folder)
           text == ReportText(Folder, final.final_clusters, final.final_singletons,
                              final.all_cores, final.normal_cores, final.shared_substrings)
       IN  /\ logs' = (report_filename :> text) @@ logs
           /\ stderr' = Say("INFO", "wrote report", report_filename)
    /\ NextFolder
    /\ UNCHANGED <<splitter, ingestion, argv, ratio, iterdir, timestamp, locals, exit_code>>

\* Lines 624-625 when mkdir or write_text raises OSError: nothing in main
\* catches it, and it leaves main.
WriteReportRaises ==
    /\ pc = "write"
    /\ pc' = "raised"
    /\ UNCHANGED <<splitter, ingestion, argv, ratio, iterdir, timestamp, i, locals, logs, stderr, exit_code>>

\* Line 692.
Return ==
    /\ pc = "loop"
    /\ i > Len(argv)
    /\ exit_code' = <<0>>
    /\ pc' = "done"
    /\ UNCHANGED <<splitter, ingestion, argv, ratio, iterdir, timestamp, i, locals, logs, stderr>>

Next ==
    \/ Usage
    \/ Start
    \/ SkipMissing
    \/ SkipNotDir
    \/ SkipNoCandidates
    \/ ListAndSplit
    \/ Cluster
    \/ Build
    \/ WriteReport
    \/ WriteReportRaises
    \/ Return

\* Runs of main over up to MaxArgs of the small folders.
Spec == Init /\ [][Next]_vars

\* One-folder runs of main over every folder of the file system.
SpecAnalysis == InitAnalysis /\ [][Next]_vars

\* The orders Path.iterdir may yield the entries of a directory in.
Orders(entries) ==
    {List([k \in 1..Len(entries) |-> entries[p[k]]]) : p \in Permutations(1..Len(entries))}

\* The state main starts in for a run over at most one of five arguments,
\* the directory of the argument being listed in any order, and every pair
\* of names scoring below or above the threshold.
InitListing ==
    /\ argv \in UNION {[1..n -> {Abs(MovDir), Abs(HyphenDir), Abs(NoneDir), Abs(PlainFile),
                                  Abs(GonePath)}] : n \in 0..1}
    /\ ratio \in {r \in RatiosFor({Resolve(argv[k]) : k \in 1..Len(argv)}) :
                      \A pair \in DOMAIN r : r[pair] \in {70, 95}}
    /\ iterdir \in
          LET listed == [folder \in DOMAIN FileSystem |-> FileSystem[folder].entries]
          IN  IF argv = <<>> \/ Resolve(argv[1]) \notin DOMAIN FileSystem THEN {listed}
              ELSE {[listed EXCEPT ![Resolve(argv[1])] = order] :
                       order \in Orders(FileSystem[Resolve(argv[1])].entries)}
    /\ pc = "start"
    /\ timestamp = <<>>
    /\ i = 0
    /\ NoLocals
    /\ logs = <<>>
    /\ stderr = <<>>
    /\ exit_code = <<>>
    /\ OutsideIdle

\* One-folder runs of main over every listing order of the folder.
SpecListing == InitListing /\ [][Next]_vars

\* The state of main at line 662, in a run over PoolDir holding the files of
\* up to MaxCores of the stems.
InitCores ==
    /\ argv = <<Abs(PoolDir)>>
    /\ ratio = PoolRatio
    /\ iterdir = [folder \in DOMAIN FileSystem |-> FileSystem[folder].entries]
    /\ pc = "cluster"
    /\ timestamp = CHOOSE stamp \in Timestamps : TRUE
    /\ i = 1
    /\ candidate_files \in
          {PoolFiles(stems) : stems \in {s \in SUBSET PoolStems :
                                            s # {} /\ Cardinality(s) <= MaxCores}}
    /\ video_files = SplitFilesByRole(candidate_files).video_files
    /\ asset_files = SplitFilesByRole(candidate_files).asset_files
    /\ initial_clusters = <<>>
    /\ cluster_singletons = <<>>
    /\ final = [final_clusters |-> <<>>, final_singletons |-> <<>>, all_cores |-> <<>>,
                normal_cores |-> <<>>, shared_substrings |-> <<>>]
    /\ logs = <<>>
    /\ stderr = <<>>
    /\ exit_code = <<>>
    /\ OutsideIdle

NextCores ==
    \/ Cluster
    \/ Build
    \/ WriteReport

\* Lines 662-690 of a run of main over PoolDir.
SpecCores == InitCores /\ [][NextCores]_vars

\* ------------------------------------------- _split_decoration_tokens alone

\* fuzzy_explore.main is not running.
MainIdle ==
    /\ argv = <<>>
    /\ ratio = <<>>
    /\ iterdir = <<>>
    /\ pc = "idle"
    /\ timestamp = <<>>
    /\ i = 0
    /\ NoLocals
    /\ logs = <<>>
    /\ stderr = <<>>
    /\ exit_code = <<>>

\* The call starts on a decoration string of at most MaxPartLen characters
\* over the four separators and two characters that are not separators.
InitTokens ==
    /\ MainIdle
    /\ NoIngestion
    /\ decoration_part \in UNION {[1..n -> {"-", "_", " ", ".", "a", "b"}] :
                                     n \in 0..MaxPartLen}
    /\ tokens = <<>>
    /\ strings = <<>>
    /\ prefix = <<>>

\* Lines 131-146: the call returns its list.
Split ==
    /\ tokens = <<>>
    /\ tokens' = <<SplitDecorationTokens(decoration_part)>>
    /\ UNCHANGED <<fuzzy, ingestion, decoration_part, strings, prefix>>

\* Calls of _split_decoration_tokens on every decoration string.
SpecTokens == InitTokens /\ [][Split]_vars

\* ------------------------------------------- _longest_common_prefix alone

\* The call starts on one to MaxStrings strings of at most MaxStringLen
\* characters each.
InitPrefix ==
    /\ MainIdle
    /\ NoIngestion
    /\ decoration_part = <<>>
    /\ tokens = <<>>
    /\ strings \in UNION {[1..n -> UNION {[1..len -> {"a", "b"}] : len \in 0..MaxStringLen}] :
                             n \in 1..MaxStrings}
    /\ prefix = <<>>

\* Lines 117-128: the call returns its string.
CommonPrefix ==
    /\ prefix = <<>>
    /\ prefix' = <<LongestCommonPrefix(strings)>>
    /\ UNCHANGED <<fuzzy, ingestion, decoration_part, tokens, strings>>

\* Calls of _longest_common_prefix on every sequence of strings.
SpecPrefix == InitPrefix /\ [][CommonPrefix]_vars

\* ------------------------------------------------- app.ingest and app.db

\* The paths of dev/smoke_test.py (lines 26-28): a regular file, a path
\* nothing exists at, and a directory. A path is the sequence of its
\* components; the empty string has none.
ExampleFile == <<"data", "inbox", "example.mkv">>

MissingFile == <<"data", "inbox", "does_not_exist.mkv">>

InboxDir == <<"data", "inbox">>

IngestFileSystem ==
    (ExampleFile :> [is_file |-> TRUE, st_size |-> 7])
        @@ (InboxDir :> [is_file |-> FALSE, st_size |-> 0])

\* The argument lists main is invoked with: none, the empty string, each
\* of the three paths, and two paths.
IngestArgvs ==
    {<<>>, << <<>> >>, <<ExampleFile>>, <<MissingFile>>, <<InboxDir>>,
     <<ExampleFile, MissingFile>>}

\* Path.exists() (line 115).

\* A variant of NotRegularFile: whatever exists passes.
NotRegularFileNever(path) == FALSE

\* Line 119: exists_flag and not path.is_file().
NotRegularFile(path) == path \in DOMAIN IngestFileSystem /\ ~IngestFileSystem[path].is_file

\* _log (lines 61-75): the line without its timestamp, path being <<>> for
\* None and extra the sequence of its key=value fields; what _log appends
\* to logs/ingest.log is left out.
Log(level, event, detail, path, extra) ==
    Append(stdout, [level |-> level, event |-> event, detail |-> detail, path |-> path,
                    extra |-> extra])

\* main is called with `args` (lines 96-101).
Begin(args) ==
    /\ ingest_pc = "idle"
    /\ conn = <<>>
    /\ calls < MaxCalls
    /\ args \in IngestArgvs
    /\ ingest_argv' = args
    /\ calls' = calls + 1

\* main returns 1 before it set db_status (lines 105, 110, 125).
Rejected ==
    /\ file_size' = <<>>
    /\ ingest_id' = <<>>
    /\ db_status' = ""
    /\ ingest_exit' = <<1>>
    /\ UNCHANGED <<ingest_pc, schema_initialized, databases, conn>>

\* Lines 100-105: argparse takes exactly one positional argument.
UsageError ==
    \E args \in IngestArgvs :
        /\ Begin(args)
        /\ Len(args) # 1
        /\ exists_flag' = <<>>
        /\ stdout' = Log("ERROR", "USAGE_ERROR", "missing-or-invalid-arguments", <<>>, <<>>)
        /\ Rejected
        /\ UNCHANGED <<fuzzy, splitter>>

\* Lines 107-110.
MissingPathError ==
    \E args \in IngestArgvs :
        /\ Begin(args)
        /\ Len(args) = 1
        /\ args[1] = <<>>
        /\ exists_flag' = <<>>
        /\ stdout' = Log("ERROR", "VALIDATION_ERROR", "reason=missing-path", <<>>, <<>>)
        /\ Rejected
        /\ UNCHANGED <<fuzzy, splitter>>

\* Lines 112-125.
NotRegularFileError ==
    \E args \in IngestArgvs :
        /\ Begin(args)
        /\ Len(args) = 1
        /\ args[1] # <<>>
        /\ NotRegularFile(args[1])
        /\ exists_flag' = <<args[1] \in DOMAIN IngestFileSystem>>
        /\ stdout' = Log("ERROR", "VALIDATION_ERROR", "reason=not-a-regular-file",
                         <<args[1]>>, <<>>)
        /\ Rejected
        /\ UNCHANGED <<fuzzy, splitter>>

\* Lines 112-137: the path passes; stat() may raise OSError on a file
\* that exists, and then the size is None.
Validated ==
    \E args \in IngestArgvs :
        /\ Begin(args)
        /\ Len(args) = 1
        /\ args[1] # <<>>
        /\ ~NotRegularFile(args[1])
        /\ exists_flag' = <<args[1] \in DOMAIN IngestFileSystem>>
        /\ file_size' \in IF args[1] \in DOMAIN IngestFileSystem
                          THEN {<<IngestFileSystem[args[1]].st_size>>, <<>>}
                          ELSE {<<>>}
        /\ ingest_id' = <<>>
        /\ db_status' = "RECORDED"
        /\ ingest_exit' = <<>>
        /\ ingest_pc' = "connect"
        /\ UNCHANGED <<stdout, schema_initialized, databases, conn>>
        /\ UNCHANGED <<fuzzy, splitter>>

\* _initialize_connection_if_needed on a connection to the file at `p`
\* (db.py lines 120-125): the files after it returned, _initialize_schema
\* having created the two tables that were not there (lines 79-108).
InitializeConnectionIfNeeded(p) ==
    IF schema_initialized THEN databases
    ELSE [databases EXCEPT ![p].tables = @ \cup {"ingest_log", "library_items"}]

\* The except block of main (lines 150-160).
DbError ==
    /\ db_status' = "UNAVAILABLE"
    /\ stdout' = Log("ERROR", "DB_ERROR", "failed-to-record-ingest-intent", <<ingest_argv[1]>>,
                     << <<"error", "OperationalError">> >>)
    /\ ingest_pc' = "final"

\* Line 140 when get_connection yields (db.py lines 139-150).
Connect ==
    /\ ingest_pc = "connect"
    /\ databases' = InitializeConnectionIfNeeded(DEFAULT_DB_PATH)
    /\ schema_initialized' = TRUE
    /\ conn' = <<[path |-> DEFAULT_DB_PATH, inserted |-> <<>>]>>
    /\ ingest_pc' = "record"
    /\ UNCHANGED <<ingest_argv, exists_flag, file_size, ingest_id, db_status,
                   ingest_exit, stdout, calls>>
    /\ UNCHANGED <<fuzzy, splitter>>

\* Line 140 when _ensure_parent_directory or sqlite3.connect raises (db.py
\* lines 142-147).
ConnectRaises ==
    /\ ingest_pc = "connect"
    /\ DbError
    /\ UNCHANGED <<ingest_argv, exists_flag, file_size, ingest_id, ingest_exit, calls,
                   schema_initialized, databases, conn>>
    /\ UNCHANGED <<fuzzy, splitter>>

\* Line 140 when _initialize_connection_if_needed raises (db.py lines
\* 123-124): the flag stays unset, the connection is closed, and the first
\* table may have been created, CREATE TABLE being committed at once.
InitializeRaises ==
    /\ ingest_pc = "connect"
    /\ ~schema_initialized
    /\ \E created \in {{}, {"ingest_log"}} :
          databases' = [databases EXCEPT ![DEFAULT_DB_PATH].tables = @ \cup created]
    /\ DbError
    /\ UNCHANGED <<ingest_argv, exists_flag, file_size, ingest_id, ingest_exit, calls,
                   schema_initialized, conn>>
    /\ UNCHANGED <<fuzzy, splitter>>

\* A variant of NextRowId: the id of the last row committed.
NextRowIdRepeats(db) == IF db.sqlite_sequence = 0 THEN 1 ELSE db.sqlite_sequence

\* The rowid an INSERT into ingest_log gets (db.py line 82, AUTOINCREMENT):
\* one more than the largest id a committed row of the table ever had.
NextRowId(db) == db.sqlite_sequence + 1

\* Lines 141-148: record_ingest_intent inserts its row (db.py lines
\* 179-199; detected_at, processed_flag, group_id and error_message are left
\* out) and returns the new id; the row is not committed yet.
Record ==
    /\ ingest_pc = "record"
    /\ "ingest_log" \in databases[conn[1].path].tables
    /\ LET id == NextRowId(databases[conn[1].path])
           row == [id |-> id, original_path |-> ingest_argv[1],
                   original_filename |-> FolderName(ingest_argv[1]),
                   file_size |-> file_size]
       IN  /\ conn' = <<[conn[1] EXCEPT !.inserted = Append(@, row)]>>
           /\ ingest_id' = <<id>>
    /\ ingest_pc' = "commit"
    /\ UNCHANGED <<ingest_argv, exists_flag, file_size, db_status, ingest_exit, stdout,
                   calls, schema_initialized, databases>>
    /\ UNCHANGED <<fuzzy, splitter>>

\* Lines 141-148 when the INSERT raises, as it does when the table is
\* missing: get_connection closes the connection (db.py line 152).
RecordRaises ==
    /\ ingest_pc = "record"
    /\ conn' = <<>>
    /\ DbError
    /\ UNCHANGED <<ingest_argv, exists_flag, file_size, ingest_id, ingest_exit, calls,
                   schema_initialized, databases>>
    /\ UNCHANGED <<fuzzy, splitter>>

\* Line 149, then the end of the with block: the inserted row and its id
\* reach the file.
Commit ==
    /\ ingest_pc = "commit"
    /\ databases' = [databases EXCEPT
                        ![conn[1].path].ingest_log = @ \o conn[1].inserted,
                        ![conn[1].path].sqlite_sequence = ingest_id[1]]
    /\ conn' = <<>>
    /\ ingest_pc' = "final"
    /\ UNCHANGED <<ingest_argv, exists_flag, file_size, ingest_id, db_status,
                   ingest_exit, stdout, calls, schema_initialized>>
    /\ UNCHANGED <<fuzzy, splitter>>

\* Line 149 when commit raises: the connection is closed with its
\* transaction open, which rolls the insert back; ingest_id keeps the id
\* record_ingest_intent returned.
CommitRaises ==
    /\ ingest_pc = "commit"
    /\ conn' = <<>>
    /\ DbError
    /\ UNCHANGED <<ingest_argv, exists_flag, file_size, ingest_id, ingest_exit, calls,
                   schema_initialized, databases>>
    /\ UNCHANGED <<fuzzy, splitter>>

\* Lines 162-180: the final line has exists and DB_STATUS, and db_id when
\* ingest_id is not None.
FinalLog ==
    /\ ingest_pc = "final"
    /\ LET extra_fields ==
               << <<"exists", IF exists_flag[1] THEN "true" ELSE "false">>,
                  <<"DB_STATUS", db_status>> >>
                   \o (IF ingest_id # <<>> THEN << <<"db_id", ingest_id[1]>> >> ELSE <<>>)
       IN  stdout' = Log("INFO", "INGEST_INTENT_RECORDED", "", <<ingest_argv[1]>>,
                         extra_fields)
    /\ ingest_exit' = <<0>>
    /\ ingest_pc' = "idle"
    /\ UNCHANGED <<ingest_argv, exists_flag, file_size, ingest_id, db_status,
                   calls, schema_initialized, databases, conn>>
    /\ UNCHANGED <<fuzzy, splitter>>

\* Another caller in the process enters `with get_connection(config)` for
\* the config of `p` (db.py lines 139-150).
CallerEnters ==
    \E p \in DbPaths :
        /\ ingest_pc = "idle"
        /\ conn = <<>>
        /\ databases' = InitializeConnectionIfNeeded(p)
        /\ schema_initialized' = TRUE
        /\ conn' = <<[path |-> p, inserted |-> <<>>]>>
        /\ UNCHANGED <<ingest_argv, exists_flag, file_size, ingest_id, db_status,
                   ingest_pc, ingest_exit, stdout, calls>>
        /\ UNCHANGED <<fuzzy, splitter>>

\* That caller leaves its with block (db.py lines 151-152).
CallerLeaves ==
    /\ ingest_pc = "idle"
    /\ conn # <<>>
    /\ conn' = <<>>
    /\ UNCHANGED <<ingest_argv, exists_flag, file_size, ingest_id, db_status,
                   ingest_pc, ingest_exit, stdout, calls, schema_initialized,
                   databases>>
    /\ UNCHANGED <<fuzzy, splitter>>

\* The process ends and the next one starts: the module is imported anew
\* (db.py line 31).
NewProcess ==
    /\ ingest_pc = "idle"
    /\ conn = <<>>
    /\ schema_initialized
    /\ schema_initialized' = FALSE
    /\ UNCHANGED <<ingest_argv, exists_flag, file_size, ingest_id, db_status,
                   ingest_pc, ingest_exit, stdout, calls, databases, conn>>
    /\ UNCHANGED <<fuzzy, splitter>>

InitIngest ==
    /\ MainIdle
    /\ OutsideIdle

NextIngest ==
    \/ UsageError
    \/ MissingPathError
    \/ NotRegularFileError
    \/ Validated
    \/ Connect
    \/ ConnectRaises
    \/ InitializeRaises
    \/ Record
    \/ RecordRaises
    \/ Commit
    \/ CommitRaises
    \/ FinalLog
    \/ CallerEnters
    \/ CallerLeaves
    \/ NewProcess

\* Up to MaxCalls invocations of app.ingest.main, and direct callers of
\* get_connection, over the processes of one host.
SpecIngest == InitIngest /\ [][NextIngest]_vars

\* ----------------------------------------------------------------- claims

\* The eligible files of the folder under analysis.
Files == Range(video_files) \cup Range(asset_files)

\* _build_final_clusters has returned for the current folder.
Built == pc = "write"

\* _cluster_files has returned for the current folder.
Clustered == pc = "build"

\* The places a file holds in the final clusters and in the singleton list.
PlacesInClusters(f) ==
    {p \in (1..Len(final.final_clusters)) \X (1..Cardinality(Files)) :
        /\ p[2] <= Len(final.final_clusters[p[1]].members)
        /\ final.final_clusters[p[1]].members[p[2]] = f}

PlacesInSingletons(f) ==
    {m \in 1..Len(final.final_singletons) : final.final_singletons[m] = f}

\* C1: after _build_final_clusters every eligible file is exactly once a
\* member of a FinalCluster or exactly once in the singleton list, never both
\* and never neither, and nothing else is in either.
C1_Partition ==
    Built =>
        /\ \A f \in Files :
              Cardinality(PlacesInClusters(f)) + Cardinality(PlacesInSingletons(f)) = 1
        /\ \A k \in 1..Len(final.final_clusters) :
              /\ Range(final.final_clusters[k].members) \subseteq Files
              /\ Len(final.final_clusters[k].members) <= Cardinality(Files)
        /\ Range(final.final_singletons) \subseteq Files

\* C1's case: two final clusters, a member whose stem starts with both
\* cores.
C1_Witness ==
    /\ Built
    /\ Len(final.final_clusters) >= 2
    /\ \E f \in Files :
          /\ PlacesInClusters(f) # {}
          /\ \A k \in 1..Len(final.final_clusters) :
                StartsWith(Stem(f), final.final_clusters[k].core_guess)

\* C1's other case: no core at all, every file a singleton.
C1_WitnessNoCore ==
    /\ Built
    /\ final.all_cores = <<>>
    /\ Cardinality(Files) >= 2

\* The cores in the order of assignment, and those a stem starts with.
Ordered == OrderedCores(final.all_cores)

MatchingPlaces(f) == {k \in 1..Len(Ordered) : StartsWith(Stem(f), Ordered[k])}

\* The file is a member of the final cluster of this core.
MemberOf(f, core) ==
    \E k \in 1..Len(final.final_clusters) :
        /\ final.final_clusters[k].core_guess = core
        /\ f \in Range(final.final_clusters[k].members)

\* C2 as stated: every file whose stem starts with a core is a member of the
\* cluster of the first such core in the tiering order.
C2_FirstCoreInOrder ==
    Built =>
        \A f \in Files :
            MatchingPlaces(f) # {} =>
                MemberOf(f, Ordered[CHOOSE k \in MatchingPlaces(f) :
                                        \A j \in MatchingPlaces(f) : k <= j])

\* C2 amended: every file whose stem starts with a core is a member of the
\* cluster of the longest such core, and of no other; a core earlier in the
\* order that is a shorter prefix of the stem does not receive the file.
C2_LongestCore ==
    Built =>
        \A f \in Files :
            MatchingPlaces(f) # {} =>
                \E k \in MatchingPlaces(f) :
                    /\ \A j \in MatchingPlaces(f) :
                          j # k => Len(Ordered[j]) < Len(Ordered[k])
                    /\ MemberOf(f, Ordered[k])
                    /\ \A j \in MatchingPlaces(f) : j # k => ~MemberOf(f, Ordered[j])

\* C2's case: a file under a core although an earlier core of the order is
\* a prefix of its stem too.
C2_Witness ==
    /\ Built
    /\ \E f \in Files :
          \E j, k \in MatchingPlaces(f) : j < k /\ MemberOf(f, Ordered[k])

\* The group a file is in after _cluster_files at a threshold: the members
\* of its cluster, or the file alone.
GroupAt(threshold, f) ==
    LET clusters == ClusterFilesAt(threshold, video_files, asset_files, ratio).clusters
        mine == {k \in 1..Len(clusters) : f \in Range(clusters[k].members)}
    IN  IF mine = {} THEN {f} ELSE UNION {Range(clusters[k].members) : k \in mine}

\* The files in no cluster at a threshold.
AloneAt(threshold) == {f \in Files : GroupAt(threshold, f) = {f}}

\* C3 as stated: raising the threshold never puts a file in a larger cluster
\* and never lowers the number of singletons.
C3_ThresholdMonotone ==
    Clustered =>
        \A t1, t2 \in Thresholds :
            t1 < t2 =>
                /\ \A f \in Files :
                      Cardinality(GroupAt(t2, f)) <= Cardinality(GroupAt(t1, f))
                /\ Cardinality(AloneAt(t2)) >= Cardinality(AloneAt(t1))

\* C3 amended: raising the threshold never adds a file to the group of the
\* first seed, the first video in name order: its group at the higher
\* threshold is within its group at the lower one.
C3_FirstSeedMonotone ==
    Clustered /\ video_files # <<>> =>
        \A t1, t2 \in Thresholds :
            t1 < t2 => GroupAt(t2, video_files[1]) \subseteq GroupAt(t1, video_files[1])

\* C3's case: the first seed's group loses a member, but not all, when the
\* threshold is raised.
C3_Witness ==
    /\ Clustered
    /\ video_files # <<>>
    /\ \E t1, t2 \in Thresholds :
          /\ t1 < t2
          /\ GroupAt(t2, video_files[1]) # GroupAt(t1, video_files[1])
          /\ Cardinality(GroupAt(t2, video_files[1])) >= 2

\* C4 as stated: the groups and the singleton sequence of _cluster_files
\* cover every video and asset exactly once; a file is in the singleton
\* sequence exactly when it is in no group.
C4_ClustererCovers ==
    Clustered =>
        \A f \in Files :
            LET groups == {k \in 1..Len(initial_clusters) :
                              f \in Range(initial_clusters[k].members)}
                singles == {m \in 1..Len(cluster_singletons) : cluster_singletons[m] = f}
            IN  /\ Cardinality(groups) + Cardinality(singles) = 1
                /\ (singles # {}) <=> (groups = {})

\* A report has just been written: the last line of stderr names it.
JustWrote ==
    /\ pc = "loop"
    /\ stderr # <<>>
    /\ stderr[Len(stderr)].what = "wrote report"

LastReport == logs[stderr[Len(stderr)].subject]

\* The mined shared substrings that at least 90% of the normal cores contain.
ReachingNinety ==
    {k \in 1..Len(final.shared_substrings) :
        LET Has(c) == Contains(c, final.shared_substrings[k])
        IN  10 * Len(Filter(final.normal_cores, Has)) >= 9 * Len(final.normal_cores)}

\* C5 as stated: with two or more mined substrings at 90% coverage or more
\* the report declares no significant tag; a tag is declared only when
\* exactly one reaches it.
C5_UniqueTag ==
    JustWrote =>
        /\ Cardinality(ReachingNinety) >= 2 => LastReport.shared.significant = NoTag
        /\ LastReport.shared.significant # NoTag => Cardinality(ReachingNinety) = 1

\* C5 amended: a significant tag is declared only when the first of the
\* listed shared strings (the one ranked first by coverage, length, name) is
\* counted in at least 90% of the normal cores, and the declared tag is then
\* itself contained in at least 90% of them, with that count; how many other
\* mined substrings reach 90% does not matter.
C5_TagFromTopRanked ==
    JustWrote =>
        LET shared == LastReport.shared
            Has(c) == Contains(c, shared.significant.tag)
        IN  shared.significant # NoTag =>
                /\ shared.shown
                /\ 10 * shared.top5[1].count >= 9 * shared.total_normals
                /\ shared.significant.count = Len(Filter(final.normal_cores, Has))
                /\ 10 * shared.significant.count >= 9 * shared.total_normals
                /\ Len(shared.significant.tag) >= 3

\* C5's case: a tag is declared although two or more mined substrings reach
\* 90%.
C5_Witness ==
    /\ JustWrote
    /\ LastReport.shared.significant # NoTag
    /\ Cardinality(ReachingNinety) >= 2

\* C5's other case: shared strings are listed, none reaches 90%, no tag.
C5_WitnessNoTag ==
    /\ JustWrote
    /\ LastReport.shared.shown
    /\ LastReport.shared.significant = NoTag
    /\ ReachingNinety = {}

\* A folder argument that main skips: missing, no directory, or without
\* candidate files.
Skipped(k) ==
    LET folder == Resolve(argv[k])
    IN  \/ folder \notin DOMAIN FileSystem
        \/ ~FileSystem[folder].is_dir
        \/ CandidatesIn(folder) = <<>>

\* C6 as stated: a failed report write does not abort main; the folders
\* after it are still processed.
C6_WriteFailureContinues ==
    ~(pc = "raised" /\ \E k \in (i + 1)..Len(argv) : ~Skipped(k))

\* C7: main writes one line per folder handled.  A skipped folder gets its
\* skip message and no report; every other folder handled has its report
\* written and on disk; every report on disk is one of those; a skip never
\* ends the run; and main returns 0 with every folder handled.
C7_SkipsAreLocal ==
    /\ pc \in {"loop", "cluster", "build", "write", "raised"} => Len(stderr) = i - 1
    /\ argv # <<>> =>
          \A k \in 1..Len(stderr) :
              IF Skipped(k)
              THEN /\ stderr[k].what \in {"missing", "not a directory", "no candidates"}
                   /\ stderr[k].subject = Resolve(argv[k])
              ELSE /\ stderr[k].what = "wrote report"
                   /\ stderr[k].subject = ReportFilename(timestamp, Resolve(argv[k]))
                   /\ stderr[k].subject \in DOMAIN logs
    /\ \A name \in DOMAIN logs :
          \E k \in 1..Len(stderr) : ~Skipped(k) /\ stderr[k].subject = name
    /\ pc \in {"cluster", "build", "write", "raised"} => ~Skipped(i)
    /\ pc = "done" /\ argv # <<>> => exit_code = <<0>> /\ Len(stderr) = Len(argv)

\* C7's case: main has returned from a run with a skipped folder and, after
\* it, a folder whose report was written.
C7_Witness ==
    /\ pc = "done"
    /\ Len(argv) = 2
    /\ Skipped(1)
    /\ ~Skipped(2)
    /\ DOMAIN logs = {ReportFilename(timestamp, Resolve(argv[2]))}

\* C7's other case: the skipped folder comes after the processed one.
C7_WitnessSkipLast ==
    /\ pc = "done"
    /\ Len(argv) = 2
    /\ ~Skipped(1)
    /\ Skipped(2)
    /\ logs # <<>>

\* The distinct folders of argv that main processed.
ProcessedFolders == {Resolve(argv[k]) : k \in {j \in 1..Len(argv) : ~Skipped(j)}}

\* C8 as stated: two distinct folders with eligible files never write to
\* the same report path, and after the run there is one report per
\* processed folder, each the report of its folder.
C8_OwnReportPerFolder ==
    pc = "done" /\ argv # <<>> =>
        /\ \A f, g \in ProcessedFolders :
              f # g => ReportFilename(timestamp, f) # ReportFilename(timestamp, g)
        /\ Cardinality(DOMAIN logs) = Cardinality(ProcessedFolders)
        /\ \A f \in ProcessedFolders : logs[ReportFilename(timestamp, f)].folder = f

ShowE01Mkv == <<"S", "h", "o", "w", ".", "S", "0", "1", "E", "0", "1", ".", "m", "k", "v">>
ShowE02Mkv == <<"S", "h", "o", "w", ".", "S", "0", "1", "E", "0", "2", ".", "m", "k", "v">>
ShowE01Nfo == <<"S", "h", "o", "w", ".", "S", "0", "1", "E", "0", "1", ".", "n", "f", "o">>
UnrelatedAvi == <<"U", "n", "r", "e", "l", "a", "t", "e", "d", ".", "a", "v", "i">>

\* The similarity function of scenario A at threshold 90: the two Show
\* videos score 90 or more against each other, Unrelated.avi scores less
\* against every file.
ScenarioA ==
    /\ argv = <<Abs(ShowDir)>>
    /\ ratio[{ShowE01Mkv, ShowE02Mkv}] >= 90
    /\ \A p \in DOMAIN ratio : UnrelatedAvi \in p => ratio[p] < 90

\* C9: in scenario A the analysis yields exactly one final cluster, with the
\* core Show.S01E0, a common prefix of the three Show stems, and exactly the
\* three Show files as members; Unrelated.avi is the one singleton.
C9_ScenarioA ==
    Built /\ ScenarioA =>
        /\ Len(final.final_clusters) = 1
        /\ final.final_clusters[1].core_guess = <<"S", "h", "o", "w", ".", "S", "0", "1", "E", "0">>
        /\ \A f \in {ShowE01Mkv, ShowE02Mkv, ShowE01Nfo} :
              StartsWith(Stem(f), final.final_clusters[1].core_guess)
        /\ final.final_clusters[1].members = <<ShowE01Mkv, ShowE01Nfo, ShowE02Mkv>>
        /\ final.final_singletons = <<UnrelatedAvi>>

\* C9's case: scenario A with the .nfo file scoring under 90 against the
\* seed, so that the clusterer left it out and the final assignment took it.
C9_Witness ==
    /\ Built
    /\ ScenarioA
    /\ ratio[{ShowE01Mkv, ShowE01Nfo}] < 90
    /\ ShowE01Nfo \in Range(cluster_singletons)
    /\ Len(final.final_clusters) = 1

\* The common prefixes of the members' stems, by definition.
CommonPrefixes(cluster) ==
    LET first == Stem(cluster.members[1])
    IN  {p \in {SubSeq(first, 1, n) : n \in 0..Len(first)} :
            \A m \in 1..Len(cluster.members) : StartsWith(Stem(cluster.members[m]), p)}

\* C10: a provisional group whose members' stems have no common prefix but
\* the empty one gets the stem of its seed as core, which is not empty; any
\* other group gets its longest common prefix.
C10_CoreFallback ==
    \A k \in 1..Len(initial_clusters) :
        LET cluster == initial_clusters[k]
            core == ComputeCoreAndDecorations(cluster).core_guess
        IN  /\ core # <<>>
            /\ IF CommonPrefixes(cluster) = {<<>>}
               THEN core = Stem(cluster.seed)
               ELSE /\ core \in CommonPrefixes(cluster)
                    /\ \A p \in CommonPrefixes(cluster) : Len(p) <= Len(core)

\* C10's case: a group without a common prefix whose seed is not its first
\* member in name order.
C10_Witness ==
    \E k \in 1..Len(initial_clusters) :
        /\ CommonPrefixes(initial_clusters[k]) = {<<>>}
        /\ initial_clusters[k].seed # initial_clusters[k].members[1]

\* The cores the tiering receives: the distinct non-empty cores of the
\* provisional groups.
InputCores ==
    {ComputeCoreAndDecorations(initial_clusters[k]).core_guess :
        k \in 1..Len(initial_clusters)} \ {<<>>}

RECURSIVE TotalLength(_)
TotalLength(S) ==
    IF S = {} THEN 0
    ELSE LET c == CHOOSE x \in S : TRUE IN Len(c) + TotalLength(S \ {c})

\* len(c) >= 0.5 * mean, the mean being total / n, without the division.
HalfMean(c, n, total) == 2 * n * Len(c) >= total

\* len(c) >= 0.5 * mean length of the input cores.
AtLeastHalfMean(c) == HalfMean(c, Cardinality(InputCores), TotalLength(InputCores))

NoDuplicates(s) == Cardinality(Range(s)) = Len(s)

\* C11: tiering puts every distinct core in exactly one of the normal list
\* (length >= 0.5 * mean length) and the short list (length below it); the
\* lists are disjoint, without duplicates, and their union is the input set.
C11_TieringTotal ==
    Built /\ InputCores # {} =>
        LET normal == final.normal_cores
            short == ShortCores(final.all_cores)
        IN  /\ \A c \in InputCores :
                  /\ c \in Range(normal) <=> AtLeastHalfMean(c)
                  /\ c \in Range(short) <=> ~AtLeastHalfMean(c)
            /\ Range(normal) \cap Range(short) = {}
            /\ NoDuplicates(normal)
            /\ NoDuplicates(short)
            /\ Range(normal) \cup Range(short) = InputCores
            /\ Range(final.all_cores) = InputCores

\* C11's case: both tiers are inhabited and one normal core is exactly half
\* the mean length long.
C11_Witness ==
    /\ Built
    /\ ShortCores(final.all_cores) # <<>>
    /\ \E c \in Range(final.normal_cores) :
          2 * Cardinality(InputCores) * Len(c) = TotalLength(InputCores)

\* The first up to five normal cores.
Sample ==
    SubSeq(final.normal_cores, 1,
           IF Len(final.normal_cores) < 5 THEN Len(final.normal_cores) ELSE 5)

\* The substrings of length >= 2 of the first sampled core that occur in
\* every other sampled core.
Qualifying ==
    IF Sample = <<>> THEN {}
    ELSE {q \in {SubSeq(Sample[1], p[1], p[2]) :
                    p \in {r \in (1..Len(Sample[1])) \X (1..Len(Sample[1])) : r[1] < r[2]}} :
             \A k \in 2..Len(Sample) : Contains(Sample[k], q)}

\* Descending length, then alphabetically.
ListedBefore(a, b) == Len(a) > Len(b) \/ (Len(a) = Len(b) /\ StrLess(a, b))

InListedOrder(s) == \A j, k \in 1..Len(s) : j < k => ListedBefore(s[j], s[k])

\* C17 as stated: the shared substrings are exactly the qualifying
\* substrings, by descending length and then alphabetically.
C17_EveryQualifying ==
    Built =>
        /\ Range(final.shared_substrings) = Qualifying
        /\ InListedOrder(final.shared_substrings)

\* The qualifying substrings that are kept: at least 3 long, with a
\* non-empty normalized form, and listed before every other such substring of
\* the same normalized form.
Kept ==
    {q \in Qualifying :
        /\ Len(q) >= 3
        /\ NormalizeTag(q) # <<>>
        /\ \A r \in Qualifying :
              (r # q /\ Len(r) >= 3 /\ NormalizeTag(r) = NormalizeTag(q))
                  => ListedBefore(q, r)}

\* C17 amended: the shared substrings are the qualifying substrings of
\* length >= 3 whose normalized form (leading and trailing non-alphanumerics
\* stripped) is not empty, one per normalized form: the longest, and the
\* alphabetically first of the longest; by descending length and then
\* alphabetically.
C17_LongestPerNormalForm ==
    Built =>
        /\ Range(final.shared_substrings) = Kept
        /\ InListedOrder(final.shared_substrings)

\* C17's case: two qualifying substrings of one length and one normalized
\* form, of which one is listed.
C17_Witness ==
    /\ Built
    /\ \E q \in Range(final.shared_substrings) :
          \E r \in Qualifying :
              /\ r # q
              /\ Len(r) = Len(q)
              /\ NormalizeTag(r) = NormalizeTag(q)
              /\ r \notin Range(final.shared_substrings)

\* The number of normal cores that contain a string.
CoresContaining(sub) ==
    Cardinality({k \in 1..Len(final.normal_cores) : Contains(final.normal_cores[k], sub)})

\* C18 as stated: the count reported for a shared substring is the number of
\* cores of the whole normal tier that contain that exact substring, out of
\* the size of the normal tier.
C18_ExactCoverage ==
    JustWrote =>
        \A k \in 1..Len(LastReport.shared.top5) :
            /\ LastReport.shared.top5[k].count = CoresContaining(LastReport.shared.top5[k].sub)
            /\ LastReport.shared.total_normals = Len(final.normal_cores)

\* C18 amended: the count reported for a shared substring is the number of
\* cores of the whole normal tier that contain its normalized form (leading
\* and trailing non-alphanumerics stripped), out of the size of the normal
\* tier.
C18_NormalizedCoverage ==
    JustWrote =>
        \A k \in 1..Len(LastReport.shared.top5) :
            /\ LastReport.shared.top5[k].count =
                  CoresContaining(NormalizeTag(LastReport.shared.top5[k].sub))
            /\ LastReport.shared.total_normals = Len(final.normal_cores)

\* C18's case: a shared substring is reported with a count above the number
\* of cores that contain it, with a normal core outside the sample.
C18_Witness ==
    /\ JustWrote
    /\ Len(final.normal_cores) > 5
    /\ \E k \in 1..Len(LastReport.shared.top5) :
          LastReport.shared.top5[k].count > CoresContaining(LastReport.shared.top5[k].sub)

\* The order of the cores: normal before short; normal cores alphabetically;
\* short cores by descending length, then alphabetically.
CoreBefore(a, b, n, total) ==
    \/ HalfMean(a, n, total) /\ ~HalfMean(b, n, total)
    \/ HalfMean(a, n, total) /\ HalfMean(b, n, total) /\ StrLess(a, b)
    \/ ~HalfMean(a, n, total) /\ ~HalfMean(b, n, total) /\ ListedBefore(a, b)

InCoreOrder(s) ==
    LET n == Cardinality(InputCores)
        total == TotalLength(InputCores)
    IN  \A j, k \in 1..Len(s) : j < k => CoreBefore(s[j], s[k], n, total)

EmittedCores ==
    [k \in 1..Len(final.final_clusters) |-> final.final_clusters[k].core_guess]

\* C19: the cores are ordered normal cores first, alphabetically, then short
\* cores by descending length and alphabetically among equals; the final
\* clusters are emitted in that order, and no core appears twice.
C19_CoreOrder ==
    Built =>
        /\ LET ordered_cores == OrderedCores(final.all_cores)
           IN  /\ InCoreOrder(ordered_cores)
               /\ Range(ordered_cores) = InputCores
               /\ NoDuplicates(ordered_cores)
        /\ InCoreOrder(EmittedCores)
        /\ NoDuplicates(EmittedCores)
        /\ Range(EmittedCores) \subseteq InputCores

\* C19's case: among the emitted cores a normal core precedes a longer normal
\* core, and a short core precedes a shorter one that is alphabetically
\* before it.
C19_Witness ==
    /\ Built
    /\ \E j, k \in 1..Len(EmittedCores) :
          /\ j < k
          /\ AtLeastHalfMean(EmittedCores[k])
          /\ Len(EmittedCores[j]) < Len(EmittedCores[k])
    /\ \E j, k \in 1..Len(EmittedCores) :
          /\ j < k
          /\ ~AtLeastHalfMean(EmittedCores[j])
          /\ StrLess(EmittedCores[k], EmittedCores[j])

\* C20: every provisional group has at least two members, contains its
\* seed, a video, and every other member scores at least the threshold
\* against the seed; no file is a member of two groups or twice of one.
C20_ProvisionalGroups ==
    Clustered =>
        /\ \A k \in 1..Len(initial_clusters) :
              LET cluster == initial_clusters[k]
              IN  /\ Len(cluster.members) >= 2
                  /\ NoDuplicates(cluster.members)
                  /\ cluster.seed \in Range(cluster.members)
                  /\ cluster.seed \in Range(video_files)
                  /\ \A f \in Range(cluster.members) \ {cluster.seed} :
                        ratio[{cluster.seed, f}] >= SIMILARITY_THRESHOLD
        /\ \A j, k \in 1..Len(initial_clusters) :
              j # k => Range(initial_clusters[j].members)
                          \cap Range(initial_clusters[k].members) = {}

\* C20's case: two groups, and an asset in the first that scores at least
\* the threshold against the seed of the second too.
C20_Witness ==
    /\ Clustered
    /\ Len(initial_clusters) >= 2
    /\ \E f \in Range(asset_files) \cap Range(initial_clusters[1].members) :
          ratio[{initial_clusters[2].seed, f}] >= SIMILARITY_THRESHOLD

\* ---- C12

\* str.join: the strings of `parts` with `sep` between neighbours.
RECURSIVE Join(_, _)
Join(parts, sep) ==
    IF parts = <<>> THEN <<>>
    ELSE IF Len(parts) = 1 THEN parts[1]
    ELSE parts[1] \o sep \o Join(Tail(parts), sep)

\* _split_decoration_tokens has returned.
SplitReturned == tokens # <<>>

\* C12: for every decoration string and each of the four separator
\* characters (hyphen, underscore, space, period), joining the tokens of the
\* string with that character and tokenizing the result again yields the
\* same tokens in the same order.
C12_Retokenize ==
    SplitReturned =>
        \A sep \in {"-", "_", " ", "."} :
            SplitDecorationTokens(Join(tokens[1], <<sep>>)) = tokens[1]

\* A string with two different separators in a row between two tokens has
\* been split into its two tokens.
C12_Witness ==
    /\ SplitReturned
    /\ Len(tokens[1]) = 2
    /\ \E k \in 1..(Len(decoration_part) - 1) :
          /\ decoration_part[k] \in {"-", "_", " ", "."}
          /\ decoration_part[k + 1] \in {"-", "_", " ", "."}
          /\ decoration_part[k] # decoration_part[k + 1]

\* ---- C13

\* The line has a key=value field with this key.
HasField(line, key) == \E k \in 1..Len(line.extra) : line.extra[k][1] = key

\* The value of that field.
FieldOf(line, key) ==
    line.extra[CHOOSE k \in 1..Len(line.extra) : line.extra[k][1] = key][2]

IsFinalLine(line) == line.event = "INGEST_INTENT_RECORDED"

\* C13: when the database fails at any step (connecting, schema
\* initialization, the insert or the commit), main still emits the final
\* INGEST_INTENT_RECORDED line, with DB_STATUS=UNAVAILABLE and without a
\* db_id field, and returns 0; a db_id field appears only together with
\* DB_STATUS=RECORDED.
C13_UnavailableOmitsDbId ==
    /\ \A k \in 1..Len(stdout) :
          stdout[k].event = "DB_ERROR" =>
              IF k = Len(stdout) THEN ingest_pc = "final"
              ELSE /\ IsFinalLine(stdout[k + 1])
                   /\ FieldOf(stdout[k + 1], "DB_STATUS") = "UNAVAILABLE"
                   /\ ~HasField(stdout[k + 1], "db_id")
                   /\ (k + 1 = Len(stdout) /\ ingest_pc = "idle" => ingest_exit = <<0>>)
    /\ \A k \in 1..Len(stdout) :
          IsFinalLine(stdout[k]) /\ HasField(stdout[k], "db_id") =>
              FieldOf(stdout[k], "DB_STATUS") = "RECORDED"

\* ---- C14

\* The last invocation of main has returned, and it was made with this path.
ReturnedFor(path) ==
    /\ ingest_pc = "idle"
    /\ ingest_exit # <<>>
    /\ ingest_argv = <<path>>

\* The rows committed to ingest_log of the default database.
IngestLog == databases[DEFAULT_DB_PATH].ingest_log

\* The last invocation committed a row for its path with a NULL file size.
RecordedWithNullSize ==
    /\ ingest_id # <<>>
    /\ \E k \in 1..Len(IngestLog) :
          /\ IngestLog[k].id = ingest_id[1]
          /\ IngestLog[k].original_path = ingest_argv[1]
          /\ IngestLog[k].file_size = <<>>

\* No row of any database is for a path that exists without being a regular
\* file, and the invocation for such a path returned 1.
DirectoryRejected ==
    /\ \A p \in DbPaths : \A k \in 1..Len(databases[p].ingest_log) :
          LET path == databases[p].ingest_log[k].original_path
          IN  ~(path \in DOMAIN IngestFileSystem /\ ~IngestFileSystem[path].is_file)
    /\ \A path \in DOMAIN IngestFileSystem :
          ReturnedFor(path) /\ ~IngestFileSystem[path].is_file => ingest_exit = <<1>>

\* The original reading of C14: a path that exists without being a regular
\* file is rejected with exit code 1 and no row; for a path that does not
\* exist the call returns 0 and has recorded a row with a NULL file size.
C14_MissingAlwaysRecorded ==
    /\ DirectoryRejected
    /\ ReturnedFor(MissingFile) => ingest_exit = <<0>> /\ RecordedWithNullSize

\* C14: a path that exists without being a regular file is rejected with
\* exit code 1 and no row; for a path that does not exist the call returns
\* 0, and it has recorded a row with a NULL file size unless the database
\* was unavailable.
C14_MissingTolerated ==
    /\ DirectoryRejected
    /\ ReturnedFor(MissingFile) =>
          /\ ingest_exit = <<0>>
          /\ db_status = "RECORDED" => RecordedWithNullSize

\* A directory was rejected, and then the call for the missing path
\* recorded its row.
C14_Witness ==
    /\ \E k \in 1..Len(stdout) :
          stdout[k].detail = "reason=not-a-regular-file" /\ stdout[k].path = <<InboxDir>>
    /\ ReturnedFor(MissingFile)
    /\ db_status = "RECORDED"
    /\ RecordedWithNullSize

\* ---- C15

\* The ids of the rows grow along the table.
IdsIncrease(rows) ==
    \A j, k \in 1..Len(rows) : j < k => rows[j].id < rows[k].id

\* The final lines main has written, oldest first.
FinalLines == Filter(stdout, IsFinalLine)

\* The table is left alone or gets one row at its end.
AppendsAtMostOne(before, after) ==
    \/ after = before
    \/ /\ Len(after) = Len(before) + 1
       /\ SubSeq(after, 1, Len(before)) = before

\* Every step leaves each ingest_log alone or appends one row; there are
\* never more rows than invocations; and once main has returned, there is
\* one row for each invocation that ended with DB_STATUS=RECORDED.
AppendOnly ==
    /\ [][\A p \in DbPaths :
             AppendsAtMostOne(databases[p].ingest_log, databases[p].ingest_log')]_vars
    /\ [](Len(IngestLog) <= calls)
    /\ [](ingest_pc = "idle" =>
             Len(IngestLog) =
                 Len(Filter(FinalLines, LAMBDA line : FieldOf(line, "DB_STATUS") = "RECORDED")))

\* The ids record_ingest_intent returned, as the final lines show them,
\* oldest first.
ReturnedIds ==
    LET with_id == Filter(FinalLines, LAMBDA line : HasField(line, "db_id"))
    IN  [k \in 1..Len(with_id) |-> FieldOf(with_id[k], "db_id")]

\* The original reading of C15: ingest_log is append-only, with at most one
\* row per invocation and exactly one when the path passes validation and
\* the database is available, and the ids record_ingest_intent returns
\* strictly increase.
C15_ReturnedIdsIncrease ==
    /\ AppendOnly
    /\ [](\A j, k \in 1..Len(ReturnedIds) : j < k => ReturnedIds[j] < ReturnedIds[k])

\* C15: ingest_log is append-only, with at most one row per invocation and
\* exactly one when the path passes validation and the database is
\* available, and the ids record_ingest_intent returned to the invocations
\* whose commit succeeded, which are the ids of the rows, strictly increase.
C15_CommittedIdsIncrease ==
    /\ AppendOnly
    /\ [](IdsIncrease(IngestLog))
    /\ [](ingest_pc = "idle" /\ ingest_exit = <<0>> /\ db_status = "RECORDED" =>
             IngestLog # <<>> /\ IngestLog[Len(IngestLog)].id = ingest_id[1])

\* Two invocations committed a row each, with a failed commit between them.
C15_Witness ==
    /\ ingest_pc = "idle"
    /\ Len(IngestLog) = 2
    /\ Len(FinalLines) = 3
    /\ FieldOf(FinalLines[2], "DB_STATUS") = "UNAVAILABLE"
    /\ HasField(FinalLines[2], "db_id")

\* ---- C16

\* C16: every connection get_connection yields is to a database in which
\* the tables ingest_log and library_items exist.
C16_SchemaOnEveryConnection ==
    conn # <<>> =>
        {"ingest_log", "library_items"} \subseteq databases[conn[1].path].tables

\* ---- C21

\* _longest_common_prefix has returned.
PrefixReturned == prefix # <<>>

\* s starts with p, by definition.
IsPrefixOf(p, s) == Len(p) <= Len(s) /\ \A k \in 1..Len(p) : s[k] = p[k]

\* C21: for a non-empty sequence of stems, _longest_common_prefix returns
\* the longest string that is a prefix of every stem: it is a prefix of each
\* stem, and either it equals some stem or two stems differ at the character
\* right after it; it is empty exactly when the stems do not all share a
\* first character.
C21_LongestCommonPrefix ==
    PrefixReturned /\ strings # <<>> =>
        LET got == prefix[1]
            n == Len(got)
        IN  /\ \A k \in 1..Len(strings) : IsPrefixOf(got, strings[k])
            /\ \/ \E k \in 1..Len(strings) : strings[k] = got
               \/ \E j, k \in 1..Len(strings) : strings[j][n + 1] # strings[k][n + 1]
            /\ got = <<>> <=>
                  ~(/\ \A k \in 1..Len(strings) : strings[k] # <<>>
                    /\ \A j, k \in 1..Len(strings) : strings[j][1] = strings[k][1])

\* Three strings whose common prefix is not empty: the second shares one
\* character more with the first than the third does, so the prefix is cut
\* again at the third, and the first is two characters longer than the
\* prefix returned.
C21_Witness ==
    /\ PrefixReturned
    /\ Len(strings) = 3
    /\ prefix[1] # <<>>
    /\ Len(strings[1]) = Len(prefix[1]) + 2
    /\ IsPrefixOf(SubSeq(strings[1], 1, Len(prefix[1]) + 1), strings[2])
    /\ ~IsPrefixOf(SubSeq(strings[1], 1, Len(prefix[1]) + 1), strings[3])
    /\ Len(strings[3]) > Len(prefix[1])

\* ---- C22

\* The places of the tokens in the per-member lists of the cluster details
\* of a report: <<cluster, member, token>>.
TokenPlaces(report) ==
    UNION {UNION {{<<k, n, j>> : j \in 1..Len(report.details[k].decorations[n])} :
                     n \in 1..Len(report.details[k].decorations)} :
              k \in 1..Len(report.details)}

TokenAt(report, p) == report.details[p[1]].decorations[p[2]][p[3]]

\* The token is equal to, or a substring of, the core of a cluster of the
\* report.
InSomeCore(report, token) ==
    \E k \in 1..Len(report.details) :
        LET core == report.details[k].core_guess
        IN  \E off \in 0..(Len(core) - Len(token)) :
                SubSeq(core, off + 1, off + Len(token)) = token

\* The tokens the decoration summary of the report counts.
SummaryTokens(report) == {report.decorations[e][1] : e \in 1..Len(report.decorations)}

\* C22: the decoration summary counts a token exactly when it is not equal
\* to and not a substring of the core of any final cluster, its count being
\* the number of its occurrences over all members of all clusters; the
\* per-member token lists of the cluster details hold every token of every
\* member, excluded or not.
C22_DecorationSummary ==
    JustWrote =>
        LET report == LastReport
            places == TokenPlaces(report)
        IN  /\ Len(report.details) = Len(final.final_clusters)
            /\ \A k \in 1..Len(final.final_clusters) :
                  LET cluster == final.final_clusters[k]
                  IN  /\ report.details[k].core_guess = cluster.core_guess
                      /\ Len(report.details[k].decorations) = Len(cluster.members)
                      /\ \A n \in 1..Len(cluster.members) :
                            report.details[k].decorations[n] =
                                SplitDecorationTokens(
                                    SubSeq(Stem(cluster.members[n]), Len(cluster.core_guess) + 1,
                                           Len(Stem(cluster.members[n]))))
            /\ \A p \in places :
                  TokenAt(report, p) \in SummaryTokens(report)
                      <=> ~InSomeCore(report, TokenAt(report, p))
            /\ \A e \in 1..Len(report.decorations) :
                  /\ report.decorations[e][2] =
                        Cardinality({p \in places : TokenAt(report, p) = report.decorations[e][1]})
                  /\ report.decorations[e][2] > 0
                  /\ \A d \in 1..Len(report.decorations) :
                        report.decorations[d][1] = report.decorations[e][1] => d = e

\* A report whose details list a token that is a substring of a core and is
\* not counted, beside a token that is counted.
C22_Witness ==
    /\ JustWrote
    /\ \E p \in TokenPlaces(LastReport) :
          /\ InSomeCore(LastReport, TokenAt(LastReport, p))
          /\ TokenAt(LastReport, p) \notin SummaryTokens(LastReport)
    /\ LastReport.decorations # <<>>

\* C22's other case: a token counted once in each of several clusters.
C22_WitnessCounted ==
    /\ JustWrote
    /\ \E e \in 1..Len(LastReport.decorations) :
          /\ LastReport.decorations[e][2] >= 2
          /\ \E p, q \in TokenPlaces(LastReport) :
                /\ p[1] # q[1]
                /\ TokenAt(LastReport, p) = LastReport.decorations[e][1]
                /\ TokenAt(LastReport, q) = LastReport.decorations[e][1]

\* ---- C23

\* The cores that are a prefix of the stem of the file, by definition.
PrefixCores(f) == {c \in Range(final.all_cores) : IsPrefixOf(c, Stem(f))}

\* C23: every member of a final cluster is under the longest core that is a
\* prefix of its stem, every other such core being shorter; so its stem
\* starts with the core of its cluster; no final cluster is empty; and a file
\* is a singleton exactly when no core is a prefix of its stem.
C23_LongestPrefixCore ==
    Built =>
        /\ \A k \in 1..Len(final.final_clusters) :
              LET cluster == final.final_clusters[k]
              IN  /\ cluster.members # <<>>
                  /\ cluster.core_guess \in Range(final.all_cores)
                  /\ \A n \in 1..Len(cluster.members) :
                        /\ cluster.core_guess \in PrefixCores(cluster.members[n])
                        /\ \A c \in PrefixCores(cluster.members[n]) \ {cluster.core_guess} :
                              Len(c) < Len(cluster.core_guess)
        /\ \A f \in Files : f \in Range(final.final_singletons) <=> PrefixCores(f) = {}

\* A member of a final cluster whose stem starts with a second, shorter
\* core, in a folder that also has a singleton.
C23_Witness ==
    /\ Built
    /\ \E k \in 1..Len(final.final_clusters) :
          \E n \in 1..Len(final.final_clusters[k].members) :
              Cardinality(PrefixCores(final.final_clusters[k].members[n])) >= 2
    /\ final.final_singletons # <<>>

\* ---- C24

\* What lines 656-675 compute when the folder is listed in the order of the
\* file system above.
ByDefaultOrder ==
    LET files == ListCandidateFiles(FileSystem[Folder].entries)
        video == SplitFilesByRole(files).video_files
        asset == SplitFilesByRole(files).asset_files
        initial == ClusterFiles(video, asset, ratio).clusters
    IN  [initial_clusters |-> initial,
         final |-> BuildFinalClusters(initial, video, asset)]

\* The folder of the run is listed in another order than in the file system.
ListedOtherwise == iterdir[Folder] # FileSystem[Folder].entries

\* C24: whatever the order the folder is listed in, the provisional groups,
\* the ordered cores, the final clusters with the order of their members and
\* the singletons are those of the same files and the same similarity
\* function listed in one fixed order.
C24_ListingOrder ==
    /\ Clustered \/ Built => initial_clusters = ByDefaultOrder.initial_clusters
    /\ Built =>
          /\ final.all_cores = ByDefaultOrder.final.all_cores
          /\ final.final_clusters = ByDefaultOrder.final.final_clusters
          /\ final.final_singletons = ByDefaultOrder.final.final_singletons

\* A folder listed in another order, with a provisional group, a final
\* cluster of two members or more and a singleton.
C24_Witness ==
    /\ Built
    /\ ListedOtherwise
    /\ initial_clusters # <<>>
    /\ \E k \in 1..Len(final.final_clusters) : Len(final.final_clusters[k].members) >= 2
    /\ final.final_singletons # <<>>

=============================================================================
